---- MODULE Spec2Model ----
(***************************************************************************)
(* A model of the temperature-alert daemon                                 *)
(* (src/src/temperature_agent/legacy/temperature_alert.py, its cloud       *)
(* variant temperature_alert_cloud.py and tools/forecast.py).              *)
(*                                                                         *)
(* Time is the wall clock in seconds; day 0 starts at clock = 0 (local     *)
(* midnight).  The scheduler loop, the history store, the device locator,  *)
(* the trigger listener and the forecast reduction are modelled from the   *)
(* source; each has a specification of its own over the shared state.      *)
(***************************************************************************)
EXTENDS Integers, Sequences, FiniteSets, TLC

VARIABLES
    clock,            \* wall clock, seconds since midnight of day 0
    last_poll,        \* main(): last_poll (a time.time() value)
    last_alert_slot,  \* main(): last_alert_slot
    GW1200_IP,        \* module global GW1200_IP (cached gateway address)
    HISTORY,          \* module global HISTORY: name -> list of <<timestamp, temp>>
    deviceAddr,       \* environment: the address the gateway answers on, or None
    nticks,           \* number of loop iterations of main() so far
    evalCount,        \* history variable: scheduled evaluations per <<day, slot>>
    firedBefore,      \* history variable: slot -> has a scheduled evaluation run for it
    seenSince,        \* history variable: slot -> slots computed by ticks since its last firing
    readFailed,       \* history variable: the most recent sensor read of the loop failed
    \* threads calling the history store
    pc,               \* thread -> where it is in update_history / get_24h_stats
    HISTORY_LOCK,     \* the thread holding HISTORY_LOCK, or None
    uh_now,           \* thread -> update_history's local now
    uh_temps,         \* thread -> update_history's argument current_temps
    uh_todo,          \* thread -> names its for loop has still to visit
    uh_list,          \* thread -> the list the comprehension of line 152 has built
    histAtomic,       \* history variable: the calls so far applied one at a time
    recorded,         \* history variable: name -> every reading ever appended
    ncalls,           \* number of update_history calls begun
    nadv,             \* number of clock advances
    \* one call of find_ecowitt_device and its probe threads
    d_pc,             \* where the call is: idle, loop, batch_join, final_join, done
    d_next,           \* index (1..NumHosts) of the next host of network.hosts()
    d_cnt,            \* threads of the list `threads` probing silent hosts, by state
    d_resp,           \* state of the thread probing the gateway's address
    found_ip,         \* find_ecowitt_device's local found_ip
    respHost,         \* environment: index of the host the gateway is at, 0 if none
    d_result,         \* what the call returned
    \* the trigger listener
    variant,          \* which daemon runs: "lan" (temperature_alert.py) or "cloud"
    backlog,          \* connections made to the trigger port and not yet accepted
    l_pc,             \* listener thread: accept, accepted, evaluating
    running,          \* evaluations running in threads the listener started
    accepted,         \* history variable: connections accepted
    started,          \* history variable: evaluations started for accepted connections
    nconn,            \* number of connections made
    \* one forecast reduction
    fc_temps,         \* hourly["temperature_2m"]: the series of the response
    fc_past,          \* number of points of the series before the current hour
    fc_min,           \* minutes past the hour of datetime.now()
    fc_tools,         \* what tools/forecast.py get_forecast computed
    fc_legacy,        \* what the daemon's check_weather_and_alert computed
    fc_resp,          \* environment: what the forecast request met (FetchOutcomes)
    fc_badtime,       \* indices of the points whose time string is malformed
    fc_null,          \* indices of the points whose temperature is null
    freeze_threshold, \* config freeze_threshold_f
    heat_threshold,   \* config heat_threshold_f
    \* the scheduler loop and a manually triggered evaluation, call by call
    e_pc,             \* runner -> where it is in main() / check_weather_and_alert()
    e_ip,             \* runner -> its local ip
    e_temps,          \* runner -> its local current_temps
    e_fc,             \* runner -> what the forecast check of its evaluation computed
    e_attempts,       \* runner -> notification requests made by its current evaluation
    e_sent,           \* runner -> outcome of its evaluation's send: none, ok, failed
    e_wait,           \* runner -> it is inside a network call that will never return
    e_failed,         \* history variable: kinds of failure the scheduler loop has met
    e_nevals,         \* number of manual triggers so far
    e_alive,          \* "running", or "crashed" once an exception left the main thread
    \* one sensor read, by the LAN daemon's reader and by tools/temperature.py
    rd_req,           \* environment: what the request met
    rd_chans,         \* environment: the channels of the payload, in order
    rd_lan,           \* what get_ecowitt_temps returned
    rd_tools,         \* what get_current_temperatures returned
    \* the agent's tools and API: alert preferences, API sessions, memory store
    prefs,            \* agent_preferences.json, key "thresholds": sensor -> thresholds
    a_call,           \* the last set_alert_threshold call: arguments and result
    sessions,         \* api.py sessions: token -> last_accessed
    s_next,           \* the next token create_session will draw
    s_out,            \* history variable: tokens that were logged out
    s_call,           \* the last API operation: kind, token, status
    items,            \* SimpleMemoryStore: the list in the storage file
    m_call            \* the last store operation: kind, namespace, key, value

schedVars == <<clock, last_poll, last_alert_slot, GW1200_IP, HISTORY, deviceAddr,
               nticks, evalCount, firedBefore, seenSince, readFailed>>

histVars == <<pc, HISTORY_LOCK, uh_now, uh_temps, uh_todo, uh_list,
              histAtomic, recorded, ncalls, nadv>>

discVars == <<d_pc, d_next, d_cnt, d_resp, found_ip, respHost, d_result>>

trigVars == <<variant, backlog, l_pc, running, accepted, started, nconn>>

fcVars == <<fc_temps, fc_past, fc_min, fc_tools, fc_legacy, fc_resp, fc_badtime,
            fc_null, freeze_threshold, heat_threshold>>

evVars == <<e_pc, e_ip, e_temps, e_fc, e_attempts, e_sent, e_wait, e_failed, e_nevals,
            e_alive>>

rdVars == <<rd_req, rd_chans, rd_lan, rd_tools>>

toolVars == <<prefs, a_call, sessions, s_next, s_out, s_call, items, m_call>>

vars == <<schedVars, histVars, discVars, trigVars, fcVars, evVars, rdVars, toolVars>>

\* what an action of the scheduler loop leaves alone
LoopFrame == <<histVars, discVars, trigVars, fcVars, evVars, rdVars, toolVars>>

None == "None"

-----------------------------------------------------------------------------
(* Program constants *)

poll_interval == 300
TickSecs == 10
Hours24 == 86400
EpochBase == 1000000
BatchLimit == 50
HoursAhead == 24
PosInf == 100000
NegInf == -100000
LegacyMinInit == 1000
LegacyMaxInit == -1000
FREEZE_THRESHOLD_F == 60
HEAT_THRESHOLD_F == 70

(* Bounds of the model *)

MaxDays == 2
MaxTicks == 5
MaxPollTicks == 3
MaxCalls == 2
NumHosts == 53
MaxConn == 4
MaxExtra == 3
MaxAdvances == 2
GfMaxLen == 3
MaxEvalTicks == 2
MaxTriggers == 1

Slots == {"morning", "evening"}
Addrs == {"a1", "a2"}
Sensors == {"Indoor", "Attic"}
TempVals == {40, 80}

DayOf(t) == t \div Hours24
HourOf(t) == (t % Hours24) \div 3600
MinuteOf(t) == (t % 3600) \div 60

-----------------------------------------------------------------------------
(* History store, as one atomic call each (the calls hold HISTORY_LOCK) *)

EmptyTemps == [n \in {} |-> 0]

\* what one read can return: a map from the sensors that answered to temperatures
\* (here the sensors of one read report the same temperature)
Payloads == {[n \in S |-> v] : S \in SUBSET Sensors, v \in TempVals}

HistGet(H, name) == IF name \in DOMAIN H THEN H[name] ELSE <<>>

Keep_Reversed(readings, cutoff) == SelectSeq(readings, LAMBDA x : x[1] < cutoff)

Keep(readings, cutoff) == SelectSeq(readings, LAMBDA x : x[1] > cutoff)

update_history(H, current_temps, now) ==
    [name \in DOMAIN H \cup DOMAIN current_temps |->
        IF name \in DOMAIN current_temps
        THEN Keep(Append(HistGet(H, name), <<now, current_temps[name]>>), now - Hours24)
        ELSE H[name]]

\* Python's min(readings, key=...) and max(...): the first element with the extreme key
MinReading(readings) ==
    readings[CHOOSE i \in 1..Len(readings) :
        \A j \in 1..Len(readings) :
            /\ readings[j][2] >= readings[i][2]
            /\ (j < i => readings[j][2] > readings[i][2])]

MaxReading(readings) ==
    readings[CHOOSE i \in 1..Len(readings) :
        \A j \in 1..Len(readings) :
            /\ readings[j][2] <= readings[i][2]
            /\ (j < i => readings[j][2] < readings[i][2])]

get_24h_stats(H) ==
    LET live == {name \in DOMAIN H : H[name] # <<>>}
    IN  [lows  |-> [name \in live |-> MinReading(H[name])],
         highs |-> [name \in live |-> MaxReading(H[name])]]

-----------------------------------------------------------------------------
(* Locator and reader, as seen by their callers *)

\* find_ecowitt_device(): the cached address if there is one, else the result of
\* the sweep (the address that answers, or None); the result is also the new cache
find_ecowitt_device(gw, dev) == IF gw # None THEN gw ELSE dev

\* what a read of address ip can return: a payload when the gateway answers there,
\* and on every failure (timeout, refused connection, bad payload: the exception is
\* caught and logged) the empty map
ReadFailure == [ok |-> FALSE, temps |-> EmptyTemps]

ReadOutcomes(ip, dev) ==
    IF ip # None /\ ip = dev
    THEN {[ok |-> TRUE, temps |-> p] : p \in Payloads} \cup {ReadFailure}
    ELSE {ReadFailure}

get_ecowitt_temps(ip, outcome) == IF ip = None THEN EmptyTemps ELSE outcome.temps

\* check_weather_and_alert(): locate, read, record; the effect on the shared state
check_weather_and_alert(gw, H, dev, outcome, now) ==
    LET ip == find_ecowitt_device(gw, dev)
        current_temps == get_ecowitt_temps(ip, outcome)
    IN  [gw |-> ip, hist |-> update_history(H, current_temps, now)]

-----------------------------------------------------------------------------
(* Scheduler loop: one iteration of main()'s while True *)

TimeTime(c) == EpochBase + c

SlotOf(dt) ==
    IF HourOf(dt) = 20 /\ MinuteOf(dt) = 15 THEN "evening"
    ELSE IF HourOf(dt) = 9 /\ MinuteOf(dt) = 40 THEN "morning"
    ELSE None

PollDue(now, last) == now - last > poll_interval

ShouldFire_NoLatch(current_slot, last) == current_slot # None

ShouldFire(current_slot, last) == current_slot # None /\ current_slot # last

NextLatch_ResetInWindow(current_slot, last) ==
    IF ShouldFire(current_slot, last) THEN current_slot ELSE None

NextLatch(current_slot, last) ==
    IF ShouldFire(current_slot, last) THEN current_slot
    ELSE IF current_slot = None THEN None
    ELSE last

\* d1: time the poll takes; d2: time the evaluation and the sleep take (>= TickSecs)
Tick(d1, d2) ==
    LET now == TimeTime(clock)
        due == PollDue(now, last_poll)
        ip == find_ecowitt_device(GW1200_IP, deviceAddr)
        dt == clock + (IF due THEN d1 ELSE 0)
        current_slot == SlotOf(dt)
        fire == ShouldFire(current_slot, last_alert_slot)
        slotTag == IF current_slot = None THEN "none" ELSE current_slot
    IN  \E p1 \in (IF due THEN ReadOutcomes(ip, deviceAddr) ELSE {ReadFailure}) :
        LET gw1 == IF due THEN ip ELSE GW1200_IP
            h1 == IF due /\ ip # None
                  THEN update_history(HISTORY, get_ecowitt_temps(ip, p1), clock)
                  ELSE HISTORY
            ip2 == find_ecowitt_device(gw1, deviceAddr)
        IN  \E p2 \in (IF fire THEN ReadOutcomes(ip2, deviceAddr) ELSE {ReadFailure}) :
            LET ev == check_weather_and_alert(gw1, h1, deviceAddr, p2, dt)
            IN  /\ GW1200_IP' = IF fire THEN ev.gw ELSE gw1
                /\ HISTORY' = IF fire THEN ev.hist ELSE h1
                /\ last_poll' = IF due THEN now ELSE last_poll
                /\ last_alert_slot' = NextLatch(current_slot, last_alert_slot)
                /\ clock' = dt + d2
                /\ nticks' = nticks + 1
                /\ evalCount' = IF fire
                                THEN [evalCount EXCEPT ![<<DayOf(dt), current_slot>>] = @ + 1]
                                ELSE evalCount
                /\ firedBefore' = IF fire THEN [firedBefore EXCEPT ![current_slot] = TRUE]
                                  ELSE firedBefore
                /\ seenSince' = [s \in Slots |->
                                    IF fire /\ s = current_slot THEN {}
                                    ELSE seenSince[s] \cup {slotTag}]
                /\ readFailed' =
                       IF fire /\ ip2 # None THEN ~p2.ok
                       ELSE IF due /\ ip # None THEN ~p1.ok
                       ELSE readFailed
                /\ UNCHANGED deviceAddr

Threads == {"main", "manual"}

InitThreads ==
    /\ pc = [t \in Threads |-> "idle"]
    /\ HISTORY_LOCK = None
    /\ uh_now = [t \in Threads |-> 0]
    /\ uh_temps = [t \in Threads |-> EmptyTemps]
    /\ uh_todo = [t \in Threads |-> <<>>]
    /\ uh_list = [t \in Threads |-> <<>>]
    /\ histAtomic = EmptyTemps
    /\ recorded = EmptyTemps
    /\ ncalls = 0
    /\ nadv = 0

NoThreads == [start |-> 0, probe |-> 0, done |-> 0]

InitLocator ==
    /\ d_pc = "idle"
    /\ d_next = 1
    /\ d_cnt = NoThreads
    /\ d_resp = "unborn"
    /\ found_ip = None
    /\ d_result = None

InitListener ==
    /\ backlog = 0
    /\ l_pc = "accept"
    /\ running = 0
    /\ accepted = 0
    /\ started = 0
    /\ nconn = 0

NotRun == [ran |-> FALSE, ret |-> "", low |-> 0, low_time |-> 0, high |-> 0,
           high_time |-> 0, freeze_warning |-> FALSE, heat_warning |-> FALSE,
           alert |-> None]

\* a response with a clean series, and the default thresholds
CleanResponse ==
    /\ fc_resp = "series"
    /\ fc_badtime = {}
    /\ fc_null = {}
    /\ freeze_threshold = FREEZE_THRESHOLD_F
    /\ heat_threshold = HEAT_THRESHOLD_F

InitForecast ==
    /\ fc_temps = <<>>
    /\ fc_past = 0
    /\ fc_min = 0
    /\ fc_tools = NotRun
    /\ fc_legacy = NotRun
    /\ CleanResponse

\* no evaluation under way
InitEvaluation ==
    /\ e_pc = [r \in Threads |-> "idle"]
    /\ e_ip = [r \in Threads |-> None]
    /\ e_temps = [r \in Threads |-> EmptyTemps]
    /\ e_fc = [r \in Threads |-> NotRun]
    /\ e_attempts = [r \in Threads |-> 0]
    /\ e_sent = [r \in Threads |-> "none"]
    /\ e_wait = [r \in Threads |-> FALSE]
    /\ e_failed = {}
    /\ e_nevals = 0
    /\ e_alive = "running"

NotRead == [ran |-> FALSE, ret |-> "", temps |-> EmptyTemps]

InitReader ==
    /\ rd_req = "ok"
    /\ rd_chans = <<>>
    /\ rd_lan = NotRead
    /\ rd_tools = NotRead

\* no preference stored, no call made yet
NoThresholds == [has_low |-> FALSE, low |-> 0, has_high |-> FALSE, high |-> 0]

NoAlertCall == [done |-> FALSE, sensor |-> "", given |-> NoThresholds, success |-> FALSE]

InitPrefs ==
    /\ prefs = EmptyTemps
    /\ a_call = NoAlertCall

NoApiCall == [op |-> "", token |-> 0, status |-> 0]

\* api.py line 60: sessions = {}
InitSessions ==
    /\ sessions = EmptyTemps
    /\ s_next = 1
    /\ s_out = {}
    /\ s_call = NoApiCall

NoStoreCall ==
    [op |-> "", namespace |-> "", key |-> "", value |-> 0, found |-> FALSE,
     load |-> "ok"]

\* memory.py lines 41-44: _ensure_file saves [] when there is no storage file
InitStore ==
    /\ items = <<>>
    /\ m_call = NoStoreCall

InitTools == InitPrefs /\ InitSessions /\ InitStore

InitLoop ==
    /\ InitThreads
    /\ InitLocator
    /\ InitListener
    /\ InitEvaluation
    /\ InitReader
    /\ InitTools
    /\ InitForecast
    /\ last_poll = 0
    /\ last_alert_slot = None
    /\ HISTORY = EmptyTemps
    /\ nticks = 0
    /\ evalCount = [o \in (0..MaxDays) \X Slots |-> 0]
    /\ firedBefore = [s \in Slots |-> FALSE]
    /\ seenSince = [s \in Slots |-> {}]
    /\ readFailed = FALSE

(* The loop on a clock that advances exactly TickSecs per iteration, no gateway *)

InitSched ==
    /\ InitLoop
    /\ variant = "lan"
    /\ respHost = 0
    /\ clock \in 0..(TickSecs - 1)
    /\ deviceAddr = None
    /\ GW1200_IP = None

TickExact ==
    /\ clock < MaxDays * Hours24
    /\ Tick(0, TickSecs)
    /\ UNCHANGED LoopFrame

SpecSched == InitSched /\ [][TickExact]_vars

SlotStart(day, slot) ==
    day * Hours24 + (IF slot = "morning" THEN 9 * 3600 + 40 * 60 ELSE 20 * 3600 + 15 * 60)

\* C2: on a clock that advances TickSecs per tick, each slot of each day has been
\* evaluated exactly once as soon as a tick has fallen inside its minute, and not
\* at all before, however many ticks fall inside the minute.
C2_ExactlyOncePerSlot ==
    \A o \in DOMAIN evalCount :
        /\ (clock >= SlotStart(o[1], o[2]) + TickSecs => evalCount[o] = 1)
        /\ (clock < SlotStart(o[1], o[2]) + TickSecs => evalCount[o] = 0)

C2_Witness ==
    /\ clock >= MaxDays * Hours24
    /\ nticks >= MaxDays * (Hours24 \div TickSecs)
    /\ \A day \in 0..(MaxDays - 1), s \in Slots : evalCount[<<day, s>>] = 1

-----------------------------------------------------------------------------
(* The loop under arbitrary tick timing: a poll takes d1, an evaluation and the
   sleep take d2; an evaluation's forecast fetch has no timeout, so d2 has no
   upper limit.  No gateway on the network. *)

PollDelays == {0, 5}
LoopDelays == {TickSecs, 2 * TickSecs, 60,
               (20 * 3600 + 15 * 60) - (9 * 3600 + 40 * 60),
               Hours24 - ((20 * 3600 + 15 * 60) - (9 * 3600 + 40 * 60)),
               Hours24}

InitJitter ==
    /\ InitLoop
    /\ variant = "lan"
    /\ respHost = 0
    /\ clock \in {9 * 3600 + 39 * 60, 9 * 3600 + 39 * 60 + 55}
    /\ deviceAddr = None
    /\ GW1200_IP = None

TickJitter ==
    /\ nticks < MaxTicks
    /\ clock < MaxDays * Hours24
    /\ \E d1 \in PollDelays, d2 \in LoopDelays : Tick(d1, d2)
    /\ UNCHANGED LoopFrame

SpecJitter == InitJitter /\ [][TickJitter]_vars

FiresNow(s) == \E o \in DOMAIN evalCount : o[2] = s /\ evalCount'[o] > evalCount[o]

AtMostOncePerOccurrence == \A o \in DOMAIN evalCount : evalCount[o] <= 1

\* C3 as stated: a slot's evaluation fires at most once per calendar occurrence, and
\* between two firings for the same slot some tick computed the slot none.
C3_Original ==
    /\ []AtMostOncePerOccurrence
    /\ [][\A s \in Slots : (FiresNow(s) /\ firedBefore[s]) => "none" \in seenSince[s]]_schedVars

\* C3 (amended): a slot's evaluation fires at most once per calendar occurrence, and
\* between two firings for the same slot some tick computed a slot other than it
\* (none, or the other slot).
C3_AtMostOnce ==
    /\ []AtMostOncePerOccurrence
    /\ [][\A s \in Slots : (FiresNow(s) /\ firedBefore[s]) => seenSince[s] \ {s} # {}]_schedVars

C3_Witness ==
    /\ evalCount[<<0, "morning">>] = 1
    /\ evalCount[<<1, "morning">>] = 1
    /\ "morning" \in seenSince["evening"]
    /\ last_alert_slot = "morning"

-----------------------------------------------------------------------------
(* The loop with a gateway that can change its address (a DHCP renewal) or stop
   answering; main() has run its initial scan. *)

InitPoll ==
    /\ InitLoop
    /\ variant = "lan"
    /\ respHost = 0
    /\ clock = 9 * 3600 + 39 * 60 + 50
    /\ deviceAddr \in Addrs
    /\ GW1200_IP = find_ecowitt_device(None, deviceAddr)

TickPoll ==
    /\ nticks < MaxPollTicks
    /\ \E d2 \in {TickSecs, poll_interval + 1} : Tick(0, d2)
    /\ UNCHANGED LoopFrame

DeviceMoves ==
    /\ deviceAddr' \in (Addrs \cup {None}) \ {deviceAddr}
    /\ UNCHANGED <<clock, last_poll, last_alert_slot, GW1200_IP, HISTORY, nticks,
                   evalCount, firedBefore, seenSince, readFailed>>
    /\ UNCHANGED LoopFrame

NextPoll == TickPoll \/ DeviceMoves

SpecPoll == InitPoll /\ [][NextPoll]_vars

\* C6: after a sensor read against the cached gateway address has failed, the
\* cached address is cleared (so that the next poll runs discovery again).
C6_CacheClearedOnFailure == readFailed => GW1200_IP = None

-----------------------------------------------------------------------------
(* The history store under threads: the scheduler loop ("main") and a manually
   triggered evaluation ("manual") call update_history and get_24h_stats while
   the clock runs.  Each statement inside the lock is a step of its own. *)

\* what a step of a store call leaves alone
HistFrame == <<last_poll, last_alert_slot, GW1200_IP, deviceAddr, nticks,
               evalCount, firedBefore, seenSince, readFailed, discVars, trigVars, fcVars,
               evVars, rdVars, toolVars>>

\* the order in which current_temps.items() yields the names: the reader inserts
\* the indoor sensor first, then the channels
NameOrder(temps) ==
    SelectSeq(<<"Indoor", "Attic">>, LAMBDA n : n \in DOMAIN temps)

InUpdate == {"uh_append", "uh_filter", "uh_store"}

\* with HISTORY_LOCK: blocks until no thread holds the lock
CanAcquire_NoLock(t) == TRUE

CanAcquire(t) == HISTORY_LOCK = None

Release(t) == IF HISTORY_LOCK = t THEN None ELSE HISTORY_LOCK

\* lines 143-144: now = datetime.now(), cutoff = now - 24h, before the lock is taken
UH_Begin(t) ==
    /\ pc[t] = "idle"
    /\ ncalls < MaxCalls
    /\ \E temps \in Payloads :
        /\ uh_temps' = [uh_temps EXCEPT ![t] = temps]
        /\ uh_todo' = [uh_todo EXCEPT ![t] = NameOrder(temps)]
    /\ uh_now' = [uh_now EXCEPT ![t] = clock]
    /\ ncalls' = ncalls + 1
    /\ pc' = [pc EXCEPT ![t] = "uh_lock"]
    /\ UNCHANGED <<clock, HISTORY, HISTORY_LOCK, uh_list, histAtomic, recorded, nadv,
                   HistFrame>>

\* line 146: with HISTORY_LOCK; with nothing to record the block is left at once
\* and update_history returns
UH_Acquire(t) ==
    /\ pc[t] = "uh_lock"
    /\ CanAcquire(t)
    /\ histAtomic' = update_history(histAtomic, uh_temps[t], uh_now[t])
    /\ IF uh_todo[t] = <<>>
       THEN /\ pc' = [pc EXCEPT ![t] = "idle"]
            /\ uh_now' = [uh_now EXCEPT ![t] = 0]
            /\ UNCHANGED HISTORY_LOCK
       ELSE /\ pc' = [pc EXCEPT ![t] = "uh_append"]
            /\ HISTORY_LOCK' = t
            /\ UNCHANGED uh_now
    /\ UNCHANGED <<clock, HISTORY, uh_temps, uh_todo, uh_list, recorded, ncalls, nadv,
                   HistFrame>>

\* line 149: HISTORY[name].append((now, temp))
UH_Append(t) ==
    /\ pc[t] = "uh_append"
    /\ LET name == Head(uh_todo[t])
           reading == <<uh_now[t], uh_temps[t][name]>>
       IN  /\ HISTORY' = [n \in DOMAIN HISTORY \cup {name} |->
                            IF n = name THEN Append(HistGet(HISTORY, name), reading)
                            ELSE HISTORY[n]]
           /\ recorded' = [n \in DOMAIN recorded \cup {name} |->
                            IF n = name THEN Append(HistGet(recorded, name), reading)
                            ELSE recorded[n]]
    /\ pc' = [pc EXCEPT ![t] = "uh_filter"]
    /\ UNCHANGED <<clock, HISTORY_LOCK, uh_now, uh_temps, uh_todo, uh_list,
                   histAtomic, ncalls, nadv, HistFrame>>

\* line 152, right-hand side: [x for x in HISTORY[name] if x[0] > cutoff]
UH_Filter(t) ==
    /\ pc[t] = "uh_filter"
    /\ uh_list' = [uh_list EXCEPT ![t] =
                      Keep(HistGet(HISTORY, Head(uh_todo[t])), uh_now[t] - Hours24)]
    /\ pc' = [pc EXCEPT ![t] = "uh_store"]
    /\ UNCHANGED <<clock, HISTORY, HISTORY_LOCK, uh_now, uh_temps, uh_todo,
                   histAtomic, recorded, ncalls, nadv, HistFrame>>

\* line 152, the assignment HISTORY[name] = ...; then the next name of the loop, or
\* after the last one the with block is left and update_history returns
UH_Store(t) ==
    /\ pc[t] = "uh_store"
    /\ LET name == Head(uh_todo[t])
       IN  HISTORY' = [n \in DOMAIN HISTORY \cup {name} |->
                          IF n = name THEN uh_list[t] ELSE HISTORY[n]]
    /\ uh_todo' = [uh_todo EXCEPT ![t] = Tail(@)]
    /\ uh_list' = [uh_list EXCEPT ![t] = <<>>]
    /\ IF Tail(uh_todo[t]) = <<>>
       THEN /\ pc' = [pc EXCEPT ![t] = "idle"]
            /\ HISTORY_LOCK' = Release(t)
            /\ uh_now' = [uh_now EXCEPT ![t] = 0]
            /\ uh_temps' = [uh_temps EXCEPT ![t] = EmptyTemps]
       ELSE /\ pc' = [pc EXCEPT ![t] = "uh_append"]
            /\ UNCHANGED <<HISTORY_LOCK, uh_now, uh_temps>>
    /\ UNCHANGED <<clock, histAtomic, recorded, ncalls, nadv, HistFrame>>

\* get_24h_stats, line 157: with HISTORY_LOCK
GS_Acquire(t) ==
    /\ pc[t] = "idle"
    /\ CanAcquire(t)
    /\ HISTORY_LOCK' = t
    /\ pc' = [pc EXCEPT ![t] = "gs_compute"]
    /\ UNCHANGED <<clock, HISTORY, uh_now, uh_temps, uh_todo, uh_list,
                   histAtomic, recorded, ncalls, nadv, HistFrame>>

\* lines 158-167: the min and max of every non-empty list are computed from HISTORY
\* as it is now, the lock is released and the result returned
GS_Compute(t) ==
    /\ pc[t] = "gs_compute"
    /\ HISTORY_LOCK' = Release(t)
    /\ pc' = [pc EXCEPT ![t] = "idle"]
    /\ UNCHANGED <<clock, HISTORY, uh_now, uh_temps, uh_todo, uh_list, histAtomic,
                   recorded, ncalls, nadv, HistFrame>>

\* time passes: a moment, or a whole window
ClockAdvance ==
    /\ nadv < MaxAdvances
    /\ \E d \in {1, Hours24} : clock' = clock + d
    /\ nadv' = nadv + 1
    /\ UNCHANGED <<HISTORY, pc, HISTORY_LOCK, uh_now, uh_temps, uh_todo, uh_list,
                   histAtomic, recorded, ncalls, HistFrame>>

InitHist ==
    /\ InitLoop
    /\ variant = "lan"
    /\ respHost = 0
    /\ clock = 0
    /\ deviceAddr = None
    /\ GW1200_IP = None

NextHist ==
    \/ \E t \in Threads : UH_Begin(t)
    \/ \E t \in Threads : UH_Acquire(t)
    \/ \E t \in Threads : UH_Append(t)
    \/ \E t \in Threads : UH_Filter(t)
    \/ \E t \in Threads : UH_Store(t)
    \/ \E t \in Threads : GS_Acquire(t)
    \/ \E t \in Threads : GS_Compute(t)
    \/ ClockAdvance

SpecHist == InitHist /\ [][NextHist]_vars

\* C1: a snapshot never returns a low or a high whose timestamp is older than 24h
\* at the wall-clock time the snapshot is taken.
C1_SnapshotWithin24h ==
    \A t \in Threads :
        pc[t] = "gs_compute" =>
            LET r == get_24h_stats(HISTORY)
            IN  \A name \in DOMAIN r.lows :
                    /\ r.lows[name][1] >= clock - Hours24
                    /\ r.highs[name][1] >= clock - Hours24

\* C7: record and snapshot calls are atomic with respect to each other: no call is
\* inside its locked block while another is, and what a snapshot reads is the store
\* with every record call so far applied whole (no call applied for some of its
\* sensors only, none between its append and its prune).
C7_CallsAtomic ==
    \A t \in Threads :
        /\ pc[t] = "gs_compute" =>
              /\ HISTORY = histAtomic
              /\ \A u \in Threads \ {t} : pc[u] \notin InUpdate \cup {"gs_compute"}
        /\ pc[t] \in InUpdate =>
              \A u \in Threads \ {t} : pc[u] \notin InUpdate \cup {"gs_compute"}

C7_Witness ==
    \E t \in Threads, u \in Threads :
        /\ pc[t] = "gs_compute"
        /\ pc[u] = "uh_lock"
        /\ DOMAIN uh_temps[u] = Sensors
        /\ DOMAIN HISTORY = Sensors
        /\ \A n \in Sensors : Len(HISTORY[n]) = 1

\* C8: when no record call is under way, every sensor's history holds, once each and
\* in the order appended, every reading any call has appended for it that is still
\* inside the 24h window: racing calls lose and duplicate nothing.
C8_NoLossNoDup ==
    (\A t \in Threads : pc[t] \notin InUpdate) =>
        \A name \in DOMAIN recorded :
            /\ name \in DOMAIN HISTORY
            /\ Keep(HISTORY[name], clock - Hours24) = Keep(recorded[name], clock - Hours24)

\* two calls have raced and completed: the one that took its timestamp later
\* appended first
C8_Witness ==
    /\ \A t \in Threads : pc[t] = "idle"
    /\ ncalls >= 2
    /\ \E name \in DOMAIN HISTORY :
        /\ Len(HISTORY[name]) = 2
        /\ HISTORY[name][1][1] > HISTORY[name][2][1]
        /\ HISTORY[name] = recorded[name]

-----------------------------------------------------------------------------
(* The locator: one call of find_ecowitt_device on a subnet of NumHosts hosts, at
   most one of which is the gateway.  The threads probing silent hosts differ in
   nothing but their state, so they are kept as a count per state:
     start  started, check_and_set not yet entered
     probe  inside check_ip (answers, is refused, or times out after 1 s)
     done   finished, not yet joined                                          *)

DiscFrame == <<clock, last_poll, last_alert_slot, HISTORY, nticks, evalCount,
               firedBefore, seenSince, readFailed, histVars, trigVars, fcVars,
               evVars, rdVars, toolVars>>

\* len(threads): threads started and not yet joined
LenThreads ==
    d_cnt.start + d_cnt.probe + d_cnt.done
        + (IF d_resp \in {"start", "probe", "done"} THEN 1 ELSE 0)

\* every thread of the list has finished: the joins return
AllFinished ==
    /\ d_cnt.start = 0
    /\ d_cnt.probe = 0
    /\ d_resp \notin {"start", "probe"}

\* line 101: if len(threads) > 50
BatchFull_Never(n) == FALSE

BatchFull(n) == n > BatchLimit

\* lines 80-87: the cached address is returned at once; else the sweep starts
D_Call ==
    /\ d_pc = "idle"
    /\ IF GW1200_IP # None
       THEN /\ d_pc' = "done"
            /\ d_result' = GW1200_IP
       ELSE /\ d_pc' = "loop"
            /\ UNCHANGED d_result
    /\ UNCHANGED <<d_next, d_cnt, d_resp, found_ip, respHost, GW1200_IP, deviceAddr,
                   DiscFrame>>

\* lines 96-103: the next host gets a thread, unless found_ip is set
D_Spawn ==
    /\ d_pc = "loop"
    /\ d_next <= NumHosts
    /\ found_ip = None
    /\ IF d_next = respHost
       THEN /\ d_resp' = "start"
            /\ UNCHANGED d_cnt
       ELSE /\ d_cnt' = [d_cnt EXCEPT !.start = @ + 1]
            /\ UNCHANGED d_resp
    /\ d_next' = d_next + 1
    /\ d_pc' = IF BatchFull(LenThreads + 1) THEN "batch_join" ELSE "loop"
    /\ UNCHANGED <<found_ip, respHost, d_result, GW1200_IP, deviceAddr, DiscFrame>>

\* line 97: if found_ip: break; or the hosts are exhausted
D_Break ==
    /\ d_pc = "loop"
    /\ (found_ip # None \/ d_next > NumHosts)
    /\ d_pc' = "final_join"
    /\ UNCHANGED <<d_next, d_cnt, d_resp, found_ip, respHost, d_result, GW1200_IP,
                   deviceAddr, DiscFrame>>

Joined == IF d_resp = "done" THEN "joined" ELSE d_resp

\* lines 102-103: for t in threads: t.join(); threads = []
D_BatchJoin ==
    /\ d_pc = "batch_join"
    /\ AllFinished
    /\ d_cnt' = NoThreads
    /\ d_resp' = Joined
    /\ d_pc' = "loop"
    /\ UNCHANGED <<d_next, found_ip, respHost, d_result, GW1200_IP, deviceAddr,
                   DiscFrame>>

\* lines 105-113: the last joins, the cache is set, the result returned
D_FinalJoin ==
    /\ d_pc = "final_join"
    /\ AllFinished
    /\ d_cnt' = NoThreads
    /\ d_resp' = Joined
    /\ GW1200_IP' = IF found_ip # None THEN found_ip ELSE GW1200_IP
    /\ d_result' = found_ip
    /\ d_pc' = "done"
    /\ UNCHANGED <<d_next, found_ip, respHost, deviceAddr, DiscFrame>>

\* check_and_set, line 92, in a thread for a silent host: if found_ip: return
P_Enter ==
    /\ d_cnt.start > 0
    /\ d_cnt' = IF found_ip # None
                THEN [d_cnt EXCEPT !.start = @ - 1, !.done = @ + 1]
                ELSE [d_cnt EXCEPT !.start = @ - 1, !.probe = @ + 1]
    /\ UNCHANGED <<d_pc, d_next, d_resp, found_ip, respHost, d_result, GW1200_IP,
                   deviceAddr, DiscFrame>>

\* check_ip on a silent host returns None (refused, or the 1 s timeout)
P_Fail ==
    /\ d_cnt.probe > 0
    /\ d_cnt' = [d_cnt EXCEPT !.probe = @ - 1, !.done = @ + 1]
    /\ UNCHANGED <<d_pc, d_next, d_resp, found_ip, respHost, d_result, GW1200_IP,
                   deviceAddr, DiscFrame>>

\* check_and_set, line 92, in the thread for the gateway's address
R_Enter ==
    /\ d_resp = "start"
    /\ d_resp' = IF found_ip # None THEN "done" ELSE "probe"
    /\ UNCHANGED <<d_pc, d_next, d_cnt, found_ip, respHost, d_result, GW1200_IP,
                   deviceAddr, DiscFrame>>

\* lines 93-94: check_ip answers with the marker, found_ip = str(ip)
R_Found ==
    /\ d_resp = "probe"
    /\ found_ip' = deviceAddr
    /\ d_resp' = "done"
    /\ UNCHANGED <<d_pc, d_next, d_cnt, respHost, d_result, GW1200_IP, deviceAddr,
                   DiscFrame>>

\* the subnet: no gateway, or one at the first host, in the second batch or last;
\* the cache empty, or holding the address from an earlier call
InitDisc ==
    /\ InitLoop
    /\ variant = "lan"
    /\ clock = 0
    /\ \/ /\ deviceAddr = None
          /\ respHost = 0
          /\ GW1200_IP = None
       \/ /\ deviceAddr = "a1"
          /\ respHost \in {1, BatchLimit + 2, NumHosts}
          /\ GW1200_IP \in {None, "a1"}

NextDisc ==
    \/ D_Call
    \/ D_Spawn
    \/ D_Break
    \/ D_BatchJoin
    \/ D_FinalJoin
    \/ P_Enter
    \/ P_Fail
    \/ R_Enter
    \/ R_Found

SpecDisc == InitDisc /\ [][NextDisc]_vars

\* C4: with exactly one address answering, the call returns that address, and once
\* the probe has succeeded the call does not wait for probes still in flight.
C4_ReturnsWithoutWaiting ==
    respHost # 0 =>
        /\ (d_pc = "done" => d_result = deviceAddr)
        /\ (found_ip # None /\ d_pc \in {"batch_join", "final_join"}) => d_cnt.probe = 0

\* C5 as stated: never more than 50 probe threads started and not yet joined.
C5_Original == LenThreads <= BatchLimit

\* C5 (amended): never more than 51 probe threads started and not yet joined: the
\* list is joined once its length exceeds 50.
C5_AtMostLimitPlusOne == LenThreads <= BatchLimit + 1

C5_Witness ==
    /\ LenThreads = BatchLimit + 1
    /\ d_cnt.probe = BatchLimit + 1
    /\ d_pc = "batch_join"

-----------------------------------------------------------------------------
(* The trigger listener of either daemon.  trigger_now.py connects to the port and
   closes; the listener accepts, closes its end and has check_weather_and_alert
   run: the LAN daemon in a new thread, the cloud daemon by calling it. *)

TrigFrame == <<clock, last_poll, last_alert_slot, GW1200_IP, HISTORY, deviceAddr,
               nticks, evalCount, firedBefore, seenSince, readFailed, histVars,
               discVars, fcVars, evVars, rdVars, toolVars>>

\* evaluations under way that accepted connections have started
EvalsRunning == running + (IF l_pc = "evaluating" THEN 1 ELSE 0)

\* trigger_now.py: s.connect(('127.0.0.1', TRIGGER_PORT))
Connect ==
    /\ nconn < MaxConn
    /\ nconn' = nconn + 1
    /\ backlog' = backlog + 1
    /\ UNCHANGED <<variant, l_pc, running, accepted, started, TrigFrame>>

\* client, addr = server.accept()
L_Accept ==
    /\ l_pc = "accept"
    /\ backlog > 0
    /\ backlog' = backlog - 1
    /\ accepted' = accepted + 1
    /\ l_pc' = "accepted"
    /\ UNCHANGED <<variant, running, started, nconn, TrigFrame>>

\* the evaluation called in the listener's own thread
L_SpawnEvaluation_Inline ==
    /\ l_pc = "accepted"
    /\ variant = "lan"
    /\ started' = started + 1
    /\ l_pc' = "evaluating"
    /\ UNCHANGED <<variant, backlog, running, accepted, nconn, TrigFrame>>

\* temperature_alert.py line 292: threading.Thread(target=check_weather_and_alert).start()
L_SpawnEvaluation ==
    /\ l_pc = "accepted"
    /\ variant = "lan"
    /\ running' = running + 1
    /\ started' = started + 1
    /\ l_pc' = "accept"
    /\ UNCHANGED <<variant, backlog, accepted, nconn, TrigFrame>>

\* temperature_alert_cloud.py line 393: check_weather_and_alert() is called
L_CallEvaluation ==
    /\ l_pc = "accepted"
    /\ variant = "cloud"
    /\ started' = started + 1
    /\ l_pc' = "evaluating"
    /\ UNCHANGED <<variant, backlog, running, accepted, nconn, TrigFrame>>

\* the call of check_weather_and_alert returns to the cloud listener's loop
L_EvaluationReturns ==
    /\ l_pc = "evaluating"
    /\ l_pc' = "accept"
    /\ UNCHANGED <<variant, backlog, running, accepted, started, nconn, TrigFrame>>

\* an evaluation thread of the LAN daemon ends
EvaluationThreadEnds ==
    /\ running > 0
    /\ running' = running - 1
    /\ UNCHANGED <<variant, backlog, l_pc, accepted, started, nconn, TrigFrame>>

\* either daemon, at any time of day, whatever the scheduler's latch holds
InitTrig ==
    /\ InitThreads
    /\ InitLocator
    /\ InitListener
    /\ InitEvaluation
    /\ InitReader
    /\ InitTools
    /\ InitForecast
    /\ variant \in {"lan", "cloud"}
    /\ clock \in {9 * 3600 + 40 * 60, 12 * 3600}
    /\ last_alert_slot \in Slots \cup {None}
    /\ last_poll = TimeTime(clock)
    /\ HISTORY = EmptyTemps
    /\ nticks = 0
    /\ evalCount = [o \in (0..MaxDays) \X Slots |-> 0]
    /\ firedBefore = [s \in Slots |-> FALSE]
    /\ seenSince = [s \in Slots |-> {}]
    /\ readFailed = FALSE
    /\ respHost = 0
    /\ deviceAddr = None
    /\ GW1200_IP = None

NextTrig ==
    \/ Connect
    \/ L_Accept
    \/ L_SpawnEvaluation
    \/ L_CallEvaluation
    \/ L_EvaluationReturns
    \/ EvaluationThreadEnds

SpecTrig == InitTrig /\ [][NextTrig]_vars

\* C9 as stated: every accepted connection starts exactly one evaluation, whatever
\* the slot and the latch, and the listener is back at accept while that evaluation
\* runs (it does not wait for it).
C9_Original ==
    /\ started <= accepted
    /\ (l_pc = "accept" => started = accepted)
    /\ (EvalsRunning > 0 => l_pc \in {"accept", "accepted"})

\* C9 (amended): every accepted connection starts exactly one evaluation, whatever
\* the slot and the latch; the LAN daemon's listener does not wait for it, and the
\* cloud daemon's listener runs it itself, one at a time, before it accepts again.
C9_OneEvaluationPerConnection ==
    /\ started <= accepted
    /\ accepted <= started + 1
    /\ (l_pc = "accept" => started = accepted)
    /\ (l_pc = "accepted" => accepted = started + 1)
    /\ (variant = "lan" => l_pc \in {"accept", "accepted"})
    /\ (variant = "cloud" => running = 0)

\* three evaluations run at once in the LAN daemon and the listener accepts again
C9_Witness ==
    /\ variant = "lan"
    /\ running = 3
    /\ started = 3
    /\ l_pc = "accepted"
    /\ last_alert_slot = "morning"
    /\ SlotOf(clock) = "morning"

-----------------------------------------------------------------------------
(* The forecast reduction, in tools/forecast.py (get_forecast) and in the daemon
   (check_weather_and_alert).  The series is hourly; point i is at hour
   i - 1 - fc_past counted from the current hour, and now is fc_min minutes past
   the current hour.  Times are minutes from the current hour; a point's time in
   a result is its index in the series, 0 for none. *)

FcFrame == <<schedVars, histVars, discVars, trigVars, evVars, rdVars, toolVars>>

SeriesLen == HoursAhead + MaxExtra

TimeOf(i, past) == (i - 1 - past) * 60

Acc(lo, hi) == [min |-> lo, min_time |-> 0, max |-> hi, max_time |-> 0, count |-> 0]

\* the body both loops share: strict comparisons, the first extreme wins
Scan(acc, temp, i) ==
    [min      |-> IF temp < acc.min THEN temp ELSE acc.min,
     min_time |-> IF temp < acc.min THEN i ELSE acc.min_time,
     max      |-> IF temp > acc.max THEN temp ELSE acc.max,
     max_time |-> IF temp > acc.max THEN i ELSE acc.max_time,
     count    |-> acc.count + 1]

\* forecast.py line 93: t >= now.replace(minute=0, second=0, microsecond=0)
ToolsInWindow(t, nowMin) == t >= 0

\* temperature_alert.py line 227: t > now
LegacyInWindow(t, nowMin) == t > nowMin

\* forecast.py line 94: if future_count < 24
ToolsHasRoom(count) == count < HoursAhead

\* forecast.py lines 88-106: the loop, with its break after 24 future hours.  A
\* malformed time string raises ValueError at line 91 and a null temperature
\* TypeError at line 95: the point is skipped (lines 105-106) and not counted.
RECURSIVE ToolsLoop(_, _, _, _, _, _, _)
ToolsLoop(temps, badtime, null, past, nowMin, i, acc) ==
    IF i > Len(temps) THEN acc
    ELSE IF i \in badtime
         THEN ToolsLoop(temps, badtime, null, past, nowMin, i + 1, acc)
    ELSE IF ToolsInWindow(TimeOf(i, past), nowMin)
         THEN IF ToolsHasRoom(acc.count)
              THEN IF i \in null
                   THEN ToolsLoop(temps, badtime, null, past, nowMin, i + 1, acc)
                   ELSE ToolsLoop(temps, badtime, null, past, nowMin, i + 1,
                                  Scan(acc, temps[i], i))
              ELSE acc
         ELSE ToolsLoop(temps, badtime, null, past, nowMin, i + 1, acc)

\* forecast.py lines 109-117: no future point found: the first 24 positions
RECURSIVE ToolsFallback(_, _, _, _)
ToolsFallback(temps, null, i, acc) ==
    IF i > Len(temps) \/ i > HoursAhead THEN acc
    ELSE ToolsFallback(temps, null, i + 1, Scan(acc, temps[i], i))

\* the fallback has no try: a null temperature among the first 24 positions raises
\* TypeError at line 112, out of get_forecast
FallbackRaises(temps, null) == \E i \in null : i <= Len(temps) /\ i <= HoursAhead

\* what the request of lines 54-63 and the checks of lines 66-76 can meet
FetchOutcomes == {"network_error", "http_error", "bad_json", "error_envelope", "series"}

\* forecast.py lines 120-121
FreezeWarning_OrEqual(min_temp, threshold) ==
    IF min_temp # PosInf THEN min_temp <= threshold ELSE FALSE

FreezeWarning(min_temp, threshold) ==
    IF min_temp # PosInf THEN min_temp < threshold ELSE FALSE

HeatWarning_Below(max_temp, threshold) ==
    IF max_temp # NegInf THEN max_temp < threshold ELSE FALSE

HeatWarning(max_temp, threshold) ==
    IF max_temp # NegInf THEN max_temp > threshold ELSE FALSE

ForecastNone == [NotRun EXCEPT !.ran = TRUE, !.ret = "None"]
ForecastRaised == [NotRun EXCEPT !.ran = TRUE, !.ret = "raise"]

\* get_forecast: ret is "dict" (a result was returned), "None", or "raise" (an
\* exception left the function); a low of PosInf or a high of NegInf is returned
\* as None (lines 125, 127)
get_forecast(resp, temps, badtime, null, past, nowMin, freeze, heat) ==
    IF resp # "series" \/ Len(temps) = 0 THEN ForecastNone
    ELSE
    LET first == ToolsLoop(temps, badtime, null, past, nowMin, 1, Acc(PosInf, NegInf))
        fallback == first.min_time = 0 \/ first.max_time = 0
        acc == IF fallback /\ ~FallbackRaises(temps, null)
               THEN ToolsFallback(temps, null, 1, first)
               ELSE first
    IN  IF fallback /\ FallbackRaises(temps, null) THEN ForecastRaised
        ELSE [ran |-> TRUE, ret |-> "dict",
              low |-> acc.min, low_time |-> acc.min_time,
              high |-> acc.max, high_time |-> acc.max_time,
              freeze_warning |-> FreezeWarning(acc.min, freeze),
              heat_warning |-> HeatWarning(acc.max, heat),
              alert |-> None]

\* temperature_alert.py lines 218-234: the loop runs over the whole series
RECURSIVE LegacyLoop(_, _, _, _, _)
LegacyLoop(temps, past, nowMin, i, acc) ==
    IF i > Len(temps) THEN acc
    ELSE IF LegacyInWindow(TimeOf(i, past), nowMin) /\ acc.count < HoursAhead
         THEN LegacyLoop(temps, past, nowMin, i + 1, Scan(acc, temps[i], i))
         ELSE LegacyLoop(temps, past, nowMin, i + 1, acc)

\* the loop has no try of its own: a malformed time string (line 226) or a null
\* temperature compared at line 228 raises into the except of line 246
LegacyRaises(temps, badtime, null, past, nowMin) ==
    \/ \E i \in badtime : i <= Len(temps)
    \/ \E i \in null :
          /\ i <= Len(temps)
          /\ LegacyInWindow(TimeOf(i, past), nowMin)
          /\ Cardinality({j \in 1..(i - 1) : LegacyInWindow(TimeOf(j, past), nowMin)})
                < HoursAhead

\* the two checks of lines 239-244 in the other order
AlertKind_HeatFirst(min_temp, max_temp, freeze, heat) ==
    IF max_temp > heat THEN "Heat Warning"
    ELSE IF min_temp < freeze THEN "Freeze Warning"
    ELSE None

\* temperature_alert.py lines 239-244: the title of the alert to send, or None
AlertKind(min_temp, max_temp, freeze, heat) ==
    IF min_temp < freeze THEN "Freeze Warning"
    ELSE IF max_temp > heat THEN "Heat Warning"
    ELSE None

\* the forecast part of check_weather_and_alert (lines 209-247): ret is "ok" when
\* the try block ran through and "error" when its except logged an error
legacy_forecast(resp, temps, badtime, null, past, nowMin, freeze, heat) ==
    IF resp \in {"network_error", "http_error", "bad_json"}
       \/ (resp = "series" /\ LegacyRaises(temps, badtime, null, past, nowMin))
    THEN [NotRun EXCEPT !.ran = TRUE, !.ret = "error"]
    ELSE
    LET series == IF resp = "series" THEN temps ELSE <<>>
        acc == LegacyLoop(series, past, nowMin, 1, Acc(LegacyMinInit, LegacyMaxInit))
    IN  [ran |-> TRUE, ret |-> "ok",
         low |-> acc.min, low_time |-> acc.min_time,
         high |-> acc.max, high_time |-> acc.max_time,
         freeze_warning |-> FALSE, heat_warning |-> FALSE,
         alert |-> AlertKind(acc.min, acc.max, freeze, heat)]

\* the series drawn: 50 everywhere but at up to two points, which are 0 or 100
Flat == [i \in 1..SeriesLen |-> 50]

SeriesInputs ==
    {Flat}
    \cup {[Flat EXCEPT ![i] = v] : i \in 1..SeriesLen, v \in {0, 100}}
    \cup {[Flat EXCEPT ![i] = v, ![j] = w] :
            i \in 1..SeriesLen, j \in 1..SeriesLen, v \in {0, 100}, w \in {0, 100}}

InitFc ==
    /\ InitThreads
    /\ InitLocator
    /\ InitListener
    /\ InitEvaluation
    /\ InitReader
    /\ InitTools
    /\ variant = "lan"
    /\ clock = 0
    /\ last_alert_slot = None
    /\ last_poll = 0
    /\ HISTORY = EmptyTemps
    /\ nticks = 0
    /\ evalCount = [o \in (0..MaxDays) \X Slots |-> 0]
    /\ firedBefore = [s \in Slots |-> FALSE]
    /\ seenSince = [s \in Slots |-> {}]
    /\ readFailed = FALSE
    /\ respHost = 0
    /\ deviceAddr = None
    /\ GW1200_IP = None
    /\ fc_temps \in SeriesInputs
    /\ fc_past \in {0, 1}
    /\ fc_min \in {0, 30}
    /\ fc_tools = NotRun
    /\ fc_legacy = NotRun
    /\ CleanResponse

FcInputs == <<fc_temps, fc_past, fc_min, fc_resp, fc_badtime, fc_null,
              freeze_threshold, heat_threshold>>

RunGetForecast ==
    /\ ~fc_tools.ran
    /\ fc_tools' = get_forecast(fc_resp, fc_temps, fc_badtime, fc_null, fc_past, fc_min,
                                freeze_threshold, heat_threshold)
    /\ UNCHANGED <<FcInputs, fc_legacy, FcFrame>>

RunLegacyForecast ==
    /\ ~fc_legacy.ran
    /\ fc_legacy' = legacy_forecast(fc_resp, fc_temps, fc_badtime, fc_null, fc_past,
                                    fc_min, freeze_threshold, heat_threshold)
    /\ UNCHANGED <<FcInputs, fc_tools, FcFrame>>

NextFc == RunGetForecast \/ RunLegacyForecast

SpecFc == InitFc /\ [][NextFc]_vars

\* the first 24 hourly points at or after the current hour
First24 == {i \in 1..Len(fc_temps) : i > fc_past /\ i <= fc_past + HoursAhead}

MinOf(S) == CHOOSE x \in S : \A y \in S : x <= y
MaxOf(S) == CHOOSE x \in S : \A y \in S : x >= y

Reduces(result) ==
    /\ result.low = MinOf({fc_temps[i] : i \in First24})
    /\ result.high = MaxOf({fc_temps[i] : i \in First24})

\* C10: for a series with more than 24 points at or after the current hour, the low
\* and the high are the min and the max of the first 24 of them, in get_forecast and
\* in the daemon's evaluation alike: later points change nothing.
C10_First24Only ==
    Len(fc_temps) - fc_past > HoursAhead =>
        /\ (fc_tools.ran => Reduces(fc_tools))
        /\ (fc_legacy.ran => Reduces(fc_legacy))

-----------------------------------------------------------------------------
(* get_forecast and the daemon's forecast check on any upstream response: short
   series with malformed time strings and null temperatures, failed requests,
   error envelopes, and thresholds at, below and above the temperatures. *)

GfTemps == {50, 60, 80}

SeqsUpTo(S, n) == UNION {[1..k -> S] : k \in 0..n}

\* no point, one point, or every point is affected
FaultSets(n) == {{}} \cup {{i} : i \in 1..n} \cup {1..n}

InitGf ==
    /\ InitThreads
    /\ InitLocator
    /\ InitListener
    /\ InitEvaluation
    /\ InitReader
    /\ InitTools
    /\ variant = "lan"
    /\ clock = 0
    /\ last_alert_slot = None
    /\ last_poll = 0
    /\ HISTORY = EmptyTemps
    /\ nticks = 0
    /\ evalCount = [o \in (0..MaxDays) \X Slots |-> 0]
    /\ firedBefore = [s \in Slots |-> FALSE]
    /\ seenSince = [s \in Slots |-> {}]
    /\ readFailed = FALSE
    /\ respHost = 0
    /\ deviceAddr = None
    /\ GW1200_IP = None
    /\ fc_resp \in FetchOutcomes
    /\ fc_temps \in (IF fc_resp = "series" THEN SeqsUpTo(GfTemps, GfMaxLen)
                     ELSE {<<50, 50, 50>>})
    /\ fc_badtime \in (IF fc_resp = "series" THEN FaultSets(Len(fc_temps)) ELSE {{}})
    /\ fc_null \in (IF fc_resp = "series" THEN FaultSets(Len(fc_temps)) ELSE {{}})
    /\ fc_past \in 0..Len(fc_temps)
    /\ fc_min \in {0, 30}
    /\ freeze_threshold \in {FREEZE_THRESHOLD_F, 50}
    /\ heat_threshold \in {HEAT_THRESHOLD_F, 50}
    /\ fc_tools = NotRun
    /\ fc_legacy = NotRun

SpecGf == InitGf /\ [][NextFc]_vars

\* the spec's example: [50, 50, 50], freeze threshold 60, heat threshold 70
Example50 ==
    /\ fc_resp = "series"
    /\ fc_temps = <<50, 50, 50>>
    /\ fc_badtime = {}
    /\ fc_null = {}
    /\ freeze_threshold = 60
    /\ heat_threshold = 70

\* some point of the series is later than now
SomePointAhead == \E i \in 1..Len(fc_temps) : LegacyInWindow(TimeOf(i, fc_past), fc_min)

\* C11 as stated: for [50, 50, 50] with thresholds 60 and 70 no alert fires (no
\* freeze warning, no heat warning) and the low and the high are both 50.
C11_Original ==
    Example50 =>
        /\ fc_tools.ran =>
              /\ fc_tools.low = 50 /\ fc_tools.high = 50
              /\ ~fc_tools.freeze_warning /\ ~fc_tools.heat_warning
        /\ (fc_legacy.ran /\ SomePointAhead) =>
              /\ fc_legacy.low = 50 /\ fc_legacy.high = 50
              /\ fc_legacy.alert = None

\* C11 (amended): for [50, 50, 50] with thresholds 60 and 70 the low and the high
\* are both 50 and, 50 being below the freeze threshold, the freeze warning is set
\* and the heat warning is not: get_forecast returns freeze_warning true, and the
\* daemon (given a point later than now) sends a Freeze Warning.
C11_FreezeWarningAt50 ==
    Example50 =>
        /\ fc_tools.ran =>
              /\ fc_tools.ret = "dict"
              /\ fc_tools.low = 50 /\ fc_tools.high = 50
              /\ fc_tools.freeze_warning /\ ~fc_tools.heat_warning
        /\ (fc_legacy.ran /\ SomePointAhead) =>
              /\ fc_legacy.low = 50 /\ fc_legacy.high = 50
              /\ fc_legacy.alert = "Freeze Warning"

C11_Witness ==
    /\ Example50
    /\ fc_past = 0
    /\ fc_tools.ran /\ fc_tools.freeze_warning
    /\ fc_legacy.ran /\ fc_legacy.alert = "Freeze Warning"

\* the points get_forecast reduces: the parseable points at or after the current
\* hour (at most 24 of them: every series here is shorter), or with none of those
\* the first 24 positions
Parseable == {i \in 1..Len(fc_temps) :
                 i \notin fc_badtime /\ i \notin fc_null /\ i > fc_past}

Reduced == IF Parseable # {} THEN Parseable
           ELSE {i \in 1..Len(fc_temps) : i <= HoursAhead}

\* C12: whenever get_forecast returns a result, freeze_warning is set exactly when
\* the minimum of the reduced points is strictly below the freeze threshold and
\* heat_warning exactly when their maximum is strictly above the heat threshold;
\* when it returns None (no forecast obtainable) no warning is set.
C12_WarningsStrict ==
    fc_tools.ran =>
        /\ fc_tools.ret = "dict" =>
              /\ fc_tools.freeze_warning
                    <=> (MinOf({fc_temps[i] : i \in Reduced}) < freeze_threshold)
              /\ fc_tools.heat_warning
                    <=> (MaxOf({fc_temps[i] : i \in Reduced}) > heat_threshold)
        /\ fc_tools.ret # "dict" => (~fc_tools.freeze_warning /\ ~fc_tools.heat_warning)

\* a minimum equal to the freeze threshold raises no freeze warning, while the
\* maximum above the heat threshold raises the heat warning
C12_Witness ==
    /\ fc_tools.ran /\ fc_tools.ret = "dict"
    /\ fc_tools.low = freeze_threshold /\ ~fc_tools.freeze_warning
    /\ fc_tools.high > heat_threshold /\ fc_tools.heat_warning
    /\ fc_null # {}

\* C13: get_forecast returns None and raises nothing when the request fails, the
\* response is an error envelope, the series is empty, or every hourly point is
\* unparseable (null temperature or malformed time string).
C13_NoneOnFailure ==
    (/\ fc_tools.ran
     /\ \/ fc_resp # "series"
        \/ Len(fc_temps) = 0
        \/ \A i \in 1..Len(fc_temps) : i \in fc_badtime \/ i \in fc_null)
    => fc_tools.ret = "None"

-----------------------------------------------------------------------------
(* The daemon call by call: the scheduler loop ("main") and one manually
   triggered evaluation at a time ("manual") go through discovery, sensor read,
   forecast check and alert send, each network call meeting an endpoint that
   answers, fails, answers garbage, or never answers.
     LAN daemon    main:   tick, poll_find, poll_sweep, poll_read, slot,
                           find, sweep, read, forecast, send, done, sleep
                   manual: idle, find, sweep, read, forecast, send, done
     cloud daemon  main:   init, cloud_read, history, forecast, send, done, sleep
                   manual: idle, cloud_read, history, forecast, send, done
   A runner whose exception nothing caught is "dead". *)

EvRest == <<firedBefore, seenSince, readFailed, histVars, discVars, trigVars, fcVars,
            rdVars, toolVars>>

EvFrame == <<evalCount, EvRest>>

\* what a network call can meet: an answer, a refused connection or error status,
\* a body that is not JSON, a JSON body with an unparseable value, or silence
NetOutcomes == {"answer", "error", "bad_json", "bad_value", "silent"}

\* whether the call passes a timeout: check_ip timeout=1 (line 70), the sensor read
\* timeout=5 (line 121), the forecast urlopen(URL) none (line 211), the alert
\* urlopen(req) none (line 273); the cloud daemon: timeout=30 for the sensor and
\* forecast requests (lines 92, 309), none for the alert (line 373)

HasTimeout(v, site) ==
    IF v = "lan" THEN site \in {"probe", "read"}
    ELSE site \in {"read", "history", "forecast"}

\* a silent endpoint and no timeout: the call never returns
Blocks(v, site, outcome) == outcome = "silent" /\ ~HasTimeout(v, site)

\* where the exception of a failed call is caught: in the component itself
\* (get_ecowitt_temps line 137, send_alert line 275, ecowitt_api_request lines
\* 101-109), in the evaluation (check_weather_and_alert line 246), or nowhere below
\* the caller of the evaluation (float() in get_cloud_realtime_temps, lines 124-153)
Handler_Uncaught(v, site, outcome) == "caller"

Handler(v, site, outcome) ==
    IF site = "forecast" THEN "evaluation"
    ELSE IF v = "cloud" /\ site = "read" /\ outcome = "bad_value" THEN "caller"
    ELSE "component"

\* an exception leaves check_weather_and_alert: the cloud listener catches it (line
\* 394); a thread of the LAN daemon's listener ends; in the main thread nothing
\* catches it and the process ends
UncaughtPc(v, r) == IF v = "cloud" /\ r = "manual" THEN "idle" ELSE "dead"
UncaughtAlive(r, alive) == IF r = "main" THEN "crashed" ELSE alive

\* what a successful read returns here, and what a read returns whose payload
\* raises part way: the LAN reader returns the map as far as it was filled
Reading == [n \in {"Indoor"} |-> 40]

LanReadTemps(outcome) ==
    IF outcome = "answer" THEN {Reading}
    ELSE IF outcome = "bad_value" THEN {EmptyTemps, Reading}
    ELSE {EmptyTemps}

\* the hourly series the forecast answers with; its first point is the current hour
EvalSeries == {<<65, 65>>, <<65, 50>>, <<65, 80>>, <<65, 50, 80>>}

FetchOf(outcome) ==
    IF outcome = "answer" THEN "series"
    ELSE IF outcome = "bad_json" THEN "bad_json"
    ELSE "network_error"

\* an evaluation that would go back to the request after a failure
AfterSend_Retry(outcome) == IF outcome = "answer" THEN "done" ELSE "send"

\* send_alert lines 265-276: one request; whatever its outcome the function returns,
\* and check_weather_and_alert line 258 calls it once
AfterSend(outcome) == "done"

\* the clock values at which the two jittered evaluations of SpecJitter become due
\* (Slots with no offset), used here as the two instants the loop wakes at
MorningStart == 9 * 3600 + 40 * 60
EveningStart == 20 * 3600 + 15 * 60

InitEv ==
    /\ InitThreads
    /\ InitLocator
    /\ InitListener
    /\ InitForecast
    /\ InitReader
    /\ InitTools
    /\ variant \in {"lan", "cloud"}
    /\ clock = MorningStart
    /\ last_alert_slot = None
    /\ last_poll = 0
    /\ HISTORY = EmptyTemps
    /\ nticks = 0
    /\ evalCount = [o \in (0..MaxDays) \X Slots |-> 0]
    /\ firedBefore = [s \in Slots |-> FALSE]
    /\ seenSince = [s \in Slots |-> {}]
    /\ readFailed = FALSE
    /\ respHost = 0
    /\ deviceAddr \in (IF variant = "lan" THEN {None, "a1"} ELSE {None})
    /\ GW1200_IP = find_ecowitt_device(None, deviceAddr)
    /\ e_pc = [r \in Threads |->
                 IF r = "manual" THEN "idle" ELSE IF variant = "lan" THEN "tick" ELSE "init"]
    /\ e_ip = [r \in Threads |-> None]
    /\ e_temps = [r \in Threads |-> EmptyTemps]
    /\ e_fc = [r \in Threads |-> NotRun]
    /\ e_attempts = [r \in Threads |-> 0]
    /\ e_sent = [r \in Threads |-> "none"]
    /\ e_wait = [r \in Threads |-> FALSE]
    /\ e_failed = {}
    /\ e_nevals = 0
    /\ e_alive = "running"

\* the evaluation logged an error: the forecast check did not complete, or the send
\* failed
EvalFailed(fc, sent) == fc.ret # "ok" \/ sent = "failed"

\* a latch that would be set only by an evaluation that succeeded
LatchAfterEval_SuccessOnly(current_slot, last, failed) ==
    IF failed THEN last ELSE current_slot

\* main() line 339: last_alert_slot = current_slot, whatever the evaluation did
LatchAfterEval(current_slot, last, failed) == current_slot

\* a latch that every evaluation would set, a triggered one too
SetsLatch_AnyRunner(v, r) == v = "lan"

\* last_alert_slot is a local of the LAN daemon's main() (line 310), assigned after
\* the scheduled check_weather_and_alert() only (line 339); trigger_listener starts
\* check_weather_and_alert in a thread (line 292), which does not see it
SetsLatch(v, r) == v = "lan" /\ r = "main"

\* a runner can take a step: the process lives and the runner is not inside a call
\* that never returns
CanStep(r) == e_alive = "running" /\ ~e_wait[r]

\* a new evaluation starts: check_weather_and_alert is entered
StartEval(r, first) ==
    /\ e_pc' = [e_pc EXCEPT ![r] = first]
    /\ e_attempts' = [e_attempts EXCEPT ![r] = 0]
    /\ e_sent' = [e_sent EXCEPT ![r] = "none"]
    /\ e_fc' = [e_fc EXCEPT ![r] = NotRun]
    /\ e_temps' = [e_temps EXCEPT ![r] = EmptyTemps]

\* main() line 314-317: top of the loop
E_Tick ==
    /\ variant = "lan" /\ CanStep("main") /\ e_pc["main"] = "tick"
    /\ nticks < MaxEvalTicks
    /\ nticks' = nticks + 1
    /\ e_pc' = [e_pc EXCEPT !["main"] =
                  IF PollDue(TimeTime(clock), last_poll) THEN "poll_find" ELSE "slot"]
    /\ UNCHANGED <<clock, last_poll, last_alert_slot, GW1200_IP, HISTORY, deviceAddr,
                   e_ip, e_temps, e_fc, e_attempts, e_sent, e_wait, e_failed, e_nevals,
                   e_alive, EvFrame>>

\* find_ecowitt_device line 81: the check of the cache
E_Find(r) ==
    /\ CanStep(r) /\ e_pc[r] \in {"poll_find", "find"}
    /\ IF GW1200_IP # None
       THEN /\ e_ip' = [e_ip EXCEPT ![r] = GW1200_IP]
            /\ e_pc' = [e_pc EXCEPT ![r] = IF @ = "poll_find" THEN "poll_read" ELSE "read"]
       ELSE /\ e_ip' = e_ip
            /\ e_pc' = [e_pc EXCEPT ![r] = IF @ = "poll_find" THEN "poll_sweep" ELSE "sweep"]
    /\ UNCHANGED <<clock, last_poll, last_alert_slot, GW1200_IP, HISTORY, deviceAddr,
                   nticks, e_temps, e_fc, e_attempts, e_sent, e_wait, e_failed,
                   e_nevals, e_alive, EvFrame>>

\* find_ecowitt_device lines 83-113: the sweep (every probe has a timeout) and the
\* set of the cache; in the poll no address means no read (lines 319-323)
E_Sweep(r) ==
    /\ CanStep(r) /\ e_pc[r] \in {"poll_sweep", "sweep"}
    /\ LET found == deviceAddr
       IN  /\ GW1200_IP' = IF found # None THEN found ELSE GW1200_IP
           /\ e_ip' = [e_ip EXCEPT ![r] = found]
           /\ e_pc' = [e_pc EXCEPT ![r] =
                         IF @ = "sweep" THEN "read"
                         ELSE IF found # None THEN "poll_read" ELSE "slot"]
           /\ last_poll' = IF e_pc[r] = "poll_sweep" /\ found = None
                           THEN TimeTime(clock) ELSE last_poll
           /\ e_failed' = IF r = "main" /\ found = None
                          THEN e_failed \cup {"find"} ELSE e_failed
    /\ UNCHANGED <<clock, last_alert_slot, HISTORY, deviceAddr, nticks, e_temps, e_fc,
                   e_attempts, e_sent, e_wait, e_nevals, e_alive, EvFrame>>

\* the read of a LAN runner, in the poll (lines 320-323) or in the evaluation (lines
\* 172-176), followed by update_history
E_Read(r) ==
    /\ variant = "lan" /\ CanStep(r) /\ e_pc[r] \in {"poll_read", "read"}
    /\ \E o \in (IF e_ip[r] = None THEN {"answer"} ELSE NetOutcomes) :
       LET poll == e_pc[r] = "poll_read"
           failed == e_ip[r] # None /\ o # "answer"
       IN  IF Blocks(variant, "read", o)
           THEN /\ e_wait' = [e_wait EXCEPT ![r] = TRUE]
                /\ UNCHANGED <<HISTORY, last_poll, e_pc, e_ip, e_temps, e_failed, e_alive>>
           ELSE IF failed /\ Handler(variant, "read", o) = "caller"
           THEN /\ e_pc' = [e_pc EXCEPT ![r] = UncaughtPc(variant, r)]
                /\ e_alive' = UncaughtAlive(r, e_alive)
                /\ UNCHANGED <<HISTORY, last_poll, e_ip, e_temps, e_failed, e_wait>>
           ELSE \E t \in (IF e_ip[r] = None THEN {EmptyTemps} ELSE LanReadTemps(o)) :
                /\ e_temps' = [e_temps EXCEPT ![r] = IF poll THEN @ ELSE t]
                /\ e_ip' = [e_ip EXCEPT ![r] = IF poll THEN None ELSE @]
                /\ HISTORY' = update_history(HISTORY, t, clock)
                /\ last_poll' = IF poll THEN TimeTime(clock) ELSE last_poll
                /\ e_pc' = [e_pc EXCEPT ![r] = IF poll THEN "slot" ELSE "forecast"]
                /\ e_failed' = IF r = "main" /\ failed
                               THEN e_failed \cup {"read"} ELSE e_failed
                /\ UNCHANGED <<e_wait, e_alive>>
    /\ UNCHANGED <<clock, last_alert_slot, GW1200_IP, deviceAddr, nticks, e_fc,
                   e_attempts, e_sent, e_nevals, EvFrame>>

\* main() lines 326-341: the slot, and the evaluation or the latch
E_Slot ==
    /\ variant = "lan" /\ CanStep("main") /\ e_pc["main"] = "slot"
    /\ LET current_slot == SlotOf(clock)
       IN  IF ShouldFire(current_slot, last_alert_slot)
           THEN /\ StartEval("main", "find")
                /\ evalCount' = [evalCount EXCEPT ![<<DayOf(clock), current_slot>>] = @ + 1]
                /\ UNCHANGED last_alert_slot
           ELSE /\ last_alert_slot' = NextLatch(current_slot, last_alert_slot)
                /\ e_pc' = [e_pc EXCEPT !["main"] = "sleep"]
                /\ UNCHANGED <<evalCount, e_attempts, e_sent, e_fc, e_temps>>
    /\ UNCHANGED <<clock, last_poll, GW1200_IP, HISTORY, deviceAddr, nticks, e_ip,
                   e_wait, e_failed, e_nevals, e_alive, EvRest>>

\* get_cloud_realtime_temps (cloud lines 112-155)
E_CloudRead(r) ==
    /\ variant = "cloud" /\ CanStep(r) /\ e_pc[r] = "cloud_read"
    /\ \E o \in NetOutcomes :
       IF Blocks(variant, "read", o)
       THEN /\ e_wait' = [e_wait EXCEPT ![r] = TRUE]
            /\ UNCHANGED <<e_pc, e_temps, e_alive>>
       ELSE IF o # "answer" /\ Handler(variant, "read", o) = "caller"
       THEN /\ e_pc' = [e_pc EXCEPT ![r] = UncaughtPc(variant, r)]
            /\ e_alive' = UncaughtAlive(r, e_alive)
            /\ UNCHANGED <<e_temps, e_wait>>
       ELSE /\ e_temps' = [e_temps EXCEPT ![r] = IF o = "answer" THEN Reading ELSE EmptyTemps]
            /\ e_pc' = [e_pc EXCEPT ![r] = "history"]
            /\ UNCHANGED <<e_wait, e_alive>>
    /\ UNCHANGED <<clock, last_poll, last_alert_slot, GW1200_IP, HISTORY, deviceAddr,
                   nticks, e_ip, e_fc, e_attempts, e_sent, e_failed, e_nevals, EvFrame>>

\* get_cloud_24h_history (cloud lines 158-256): its requests and its parsing catch
\* every failure; the lows and highs only annotate the message
E_CloudHistory(r) ==
    /\ variant = "cloud" /\ CanStep(r) /\ e_pc[r] = "history"
    /\ \E o \in NetOutcomes :
       IF Blocks(variant, "history", o)
       THEN /\ e_wait' = [e_wait EXCEPT ![r] = TRUE]
            /\ UNCHANGED <<e_pc, e_alive>>
       ELSE IF o # "answer" /\ Handler(variant, "history", o) = "caller"
       THEN /\ e_pc' = [e_pc EXCEPT ![r] = UncaughtPc(variant, r)]
            /\ e_alive' = UncaughtAlive(r, e_alive)
            /\ UNCHANGED e_wait
       ELSE /\ e_pc' = [e_pc EXCEPT ![r] = "forecast"]
            /\ UNCHANGED <<e_wait, e_alive>>
    /\ UNCHANGED <<clock, last_poll, last_alert_slot, GW1200_IP, HISTORY, deviceAddr,
                   nticks, e_ip, e_temps, e_fc, e_attempts, e_sent, e_failed, e_nevals,
                   EvFrame>>

\* check_weather_and_alert lines 209-247 (cloud lines 307-345) up to the decision
E_Forecast(r) ==
    /\ CanStep(r) /\ e_pc[r] = "forecast"
    /\ \E o \in NetOutcomes \ {"bad_value"}, series \in EvalSeries :
       IF Blocks(variant, "forecast", o)
       THEN /\ e_wait' = [e_wait EXCEPT ![r] = TRUE]
            /\ UNCHANGED <<e_pc, e_fc, e_failed, e_alive>>
       ELSE IF o # "answer" /\ Handler(variant, "forecast", o) = "caller"
       THEN /\ e_pc' = [e_pc EXCEPT ![r] = UncaughtPc(variant, r)]
            /\ e_alive' = UncaughtAlive(r, e_alive)
            /\ UNCHANGED <<e_fc, e_failed, e_wait>>
       ELSE LET fc == legacy_forecast(FetchOf(o), series, {}, {}, 0, 0,
                                      FREEZE_THRESHOLD_F, HEAT_THRESHOLD_F)
            IN  /\ e_fc' = [e_fc EXCEPT ![r] = fc]
                /\ e_pc' = [e_pc EXCEPT ![r] =
                              IF fc.ret = "ok" /\ fc.alert # None THEN "send" ELSE "done"]
                /\ e_failed' = IF r = "main" /\ o # "answer"
                               THEN e_failed \cup {"forecast"} ELSE e_failed
                /\ UNCHANGED <<e_wait, e_alive>>
    /\ UNCHANGED <<clock, last_poll, last_alert_slot, GW1200_IP, HISTORY, deviceAddr,
                   nticks, e_ip, e_temps, e_attempts, e_sent, e_nevals, EvFrame>>

\* send_alert (lines 249-276, cloud lines 348-376)
E_Send(r) ==
    /\ CanStep(r) /\ e_pc[r] = "send"
    /\ e_attempts' = [e_attempts EXCEPT ![r] = @ + 1]
    /\ \E o \in {"answer", "error", "silent"} :
       IF Blocks(variant, "send", o)
       THEN /\ e_wait' = [e_wait EXCEPT ![r] = TRUE]
            /\ UNCHANGED <<e_pc, e_sent, e_failed, e_alive>>
       ELSE IF o # "answer" /\ Handler(variant, "send", o) = "caller"
       THEN /\ e_pc' = [e_pc EXCEPT ![r] = UncaughtPc(variant, r)]
            /\ e_alive' = UncaughtAlive(r, e_alive)
            /\ UNCHANGED <<e_sent, e_failed, e_wait>>
       ELSE /\ e_sent' = [e_sent EXCEPT ![r] = IF o = "answer" THEN "ok" ELSE "failed"]
            /\ e_pc' = [e_pc EXCEPT ![r] = AfterSend(o)]
            /\ e_failed' = IF r = "main" /\ o # "answer"
                           THEN e_failed \cup {"send"} ELSE e_failed
            /\ UNCHANGED <<e_wait, e_alive>>
    /\ UNCHANGED <<clock, last_poll, last_alert_slot, GW1200_IP, HISTORY, deviceAddr,
                   nticks, e_ip, e_temps, e_fc, e_nevals, EvFrame>>

\* check_weather_and_alert returns (its locals are gone): the loop sets its latch
\* (line 339) and sleeps, the cloud daemon's main sleeps, a triggered evaluation is
\* over
E_Done(r) ==
    /\ CanStep(r) /\ e_pc[r] = "done"
    /\ e_pc' = [e_pc EXCEPT ![r] = IF r = "main" THEN "sleep" ELSE "idle"]
    /\ last_alert_slot' = IF SetsLatch(variant, r)
                          THEN LatchAfterEval(SlotOf(clock), last_alert_slot,
                                              EvalFailed(e_fc[r], e_sent[r]))
                          ELSE last_alert_slot
    /\ e_ip' = [e_ip EXCEPT ![r] = None]
    /\ e_temps' = [e_temps EXCEPT ![r] = EmptyTemps]
    /\ e_fc' = [e_fc EXCEPT ![r] = NotRun]
    /\ e_attempts' = [e_attempts EXCEPT ![r] = 0]
    /\ e_sent' = [e_sent EXCEPT ![r] = "none"]
    /\ UNCHANGED <<clock, last_poll, GW1200_IP, HISTORY, deviceAddr, nticks, e_wait,
                   e_failed, e_nevals, e_alive, EvFrame>>

\* main() line 343: time.sleep(10); the evaluation before it may have taken hours
E_Sleep ==
    /\ variant = "lan" /\ CanStep("main") /\ e_pc["main"] = "sleep"
    /\ \E d \in {TickSecs, EveningStart - MorningStart} : clock' = clock + d
    /\ e_pc' = [e_pc EXCEPT !["main"] = "tick"]
    /\ UNCHANGED <<last_poll, last_alert_slot, GW1200_IP, HISTORY, deviceAddr, nticks,
                   e_ip, e_temps, e_fc, e_attempts, e_sent, e_wait, e_failed, e_nevals,
                   e_alive, EvFrame>>

\* the cloud daemon's main(): the initial check (cloud line 449)
E_CloudInit ==
    /\ variant = "cloud" /\ CanStep("main") /\ e_pc["main"] = "init"
    /\ StartEval("main", "cloud_read")
    /\ UNCHANGED <<clock, last_poll, last_alert_slot, GW1200_IP, HISTORY, deviceAddr,
                   nticks, e_ip, e_wait, e_failed, e_nevals, e_alive, EvFrame>>

\* a manual trigger is accepted and its evaluation starts
E_Trigger ==
    /\ CanStep("manual") /\ e_pc["manual"] = "idle"
    /\ e_nevals < MaxTriggers
    /\ e_nevals' = e_nevals + 1
    /\ StartEval("manual", IF variant = "lan" THEN "find" ELSE "cloud_read")
    /\ UNCHANGED <<clock, last_poll, last_alert_slot, GW1200_IP, HISTORY, deviceAddr,
                   nticks, e_ip, e_wait, e_failed, e_alive, EvFrame>>

\* the gateway comes up on the network
DeviceAppears ==
    /\ variant = "lan" /\ e_alive = "running"
    /\ deviceAddr = None
    /\ deviceAddr' = "a1"
    /\ UNCHANGED <<clock, last_poll, last_alert_slot, GW1200_IP, HISTORY, nticks,
                   evVars, EvFrame>>

NextEv ==
    \/ E_Tick
    \/ E_Slot
    \/ E_Sleep
    \/ E_CloudInit
    \/ E_Trigger
    \/ DeviceAppears
    \/ \E r \in Threads : E_Find(r)
    \/ \E r \in Threads : E_Sweep(r)
    \/ \E r \in Threads : E_Read(r)
    \/ \E r \in Threads : E_CloudRead(r)
    \/ \E r \in Threads : E_CloudHistory(r)
    \/ \E r \in Threads : E_Forecast(r)
    \/ \E r \in Threads : E_Send(r)
    \/ \E r \in Threads : E_Done(r)

SpecEv == InitEv /\ [][NextEv]_vars

\* C14: an evaluation, scheduled or manual, makes at most one notification request,
\* and a request that failed is followed by the end of the evaluation, not by a
\* second request.
C14_AtMostOneAttempt ==
    \A r \in Threads :
        /\ e_attempts[r] <= 1
        /\ e_sent[r] = "failed" => e_pc[r] = "done"

\* an evaluation whose forecast crosses both thresholds has made its one request,
\* which failed, and is over
C14_Witness ==
    \E r \in Threads :
        /\ e_pc[r] = "done"
        /\ e_sent[r] = "failed"
        /\ e_attempts[r] = 1
        /\ e_fc[r].low < FREEZE_THRESHOLD_F
        /\ e_fc[r].high > HEAT_THRESHOLD_F

\* C15: an evaluation that obtained no current readings, or no forecast, sends no
\* alert, and the daemon survives it.
C15_NoAlertWithoutData ==
    /\ e_alive = "running"
    /\ \A r \in Threads :
          (e_pc[r] = "done" /\ (e_temps[r] = EmptyTemps \/ e_fc[r].ret # "ok"))
             => e_sent[r] = "none"

C17_NoCallBlocksForever == \A r \in Threads : ~e_wait[r]

\* C20: the scheduler loop and a triggered evaluation are never both between the
\* check of the cached address and its set (both sweeping the network).
C20_OneSweepAtATime ==
    ~(e_pc["main"] \in {"poll_sweep", "sweep"} /\ e_pc["manual"] = "sweep")

\* ---------------------------------------------------------------------------
\* One sensor read, field by field: the LAN daemon's get_ecowitt_temps
\* (temperature_alert.py lines 115-140) and the agent tool's
\* get_current_temperatures (tools/temperature.py lines 79-125) given the same
\* request outcome and the same channels. Temperatures are in tenths of a degree.
\* ---------------------------------------------------------------------------
RdMaxChans == 2

RdFrame == <<last_poll, last_alert_slot, GW1200_IP, deviceAddr, nticks, evalCount,
             firedBefore, seenSince, readFailed, histVars, discVars, trigVars, fcVars,
             evVars, toolVars>>

\* what the request can meet: a payload, no answer within the timeout, a non-success
\* status, a body that is not JSON, an envelope whose code is not 0
RdRequests == {"ok", "timeout", "http_error", "bad_json", "api_code"}

\* the value of a channel's temperature field: a numeric string, a string that is
\* not a number ("--"), or an entry that is not an object at all
RdForms == {"number", "text", "scalar"}

\* 20.0 and 70.1 degrees
RdValues == {200, 701}

RdUnits == {"F", "C"}

RdChannels == [val : RdValues, unit : RdUnits, form : RdForms]

\* the name a channel is stored under: wh25 / indoor first, then the numbered ones
ChanName(i) == IF i = 1 THEN "Indoor" ELSE IF i = 2 THEN "Channel 1" ELSE "Channel 2"

\* temp_f * 9/5 + 32 followed by round(., 1), on tenths (18 * c is even, so no
\* value lies half way between two tenths)
CelsiusToF(c10) == (18 * c10 + 5) \div 10 + 320

\* tools/temperature.py lines 64-76, called with a temp_data it does not raise on:
\* [none |-> TRUE] stands for the None of lines 67 and 76
parse_temperature(ch) ==
    IF ch.form # "number" THEN [none |-> TRUE, val |-> 0]
    ELSE [none |-> FALSE, val |-> IF ch.unit = "C" THEN CelsiusToF(ch.val) ELSE ch.val]

\* temperature.py lines 66: "value" not in temp_data, with temp_data a bare number,
\* raises TypeError outside the try of line 69
ParseRaises(ch) == ch.form = "scalar"

Put(temps, name, v) == [n \in DOMAIN temps \cup {name} |-> IF n = name THEN v ELSE temps[n]]

\* temperature_alert.py lines 124-135: float(sensor['intemp']) / float(sensor['temp'])
\* channel after channel into temps; the first one that raises ends the loop and
\* line 140 returns what temps holds by then
RECURSIVE LanChannels(_, _, _)
LanChannels(chans, i, temps) ==
    IF i > Len(chans) THEN temps
    ELSE IF chans[i].form # "number" THEN temps
    ELSE LanChannels(chans, i + 1, Put(temps, ChanName(i), chans[i].val))

\* the daemon's reader does not look at an envelope code: the local gateway has none
LanRequestFails(req) == req \in {"timeout", "http_error", "bad_json"}

read_livedata(req, chans) ==
    [ran |-> TRUE, ret |-> "dict",
     temps |-> IF LanRequestFails(req) THEN EmptyTemps
               ELSE LanChannels(chans, 1, EmptyTemps)]

\* tools/temperature.py lines 97-123: a channel _parse_temperature returns None for
\* is left out, the others are kept
RECURSIVE ToolsChannels(_, _, _)
ToolsChannels(chans, i, temps) ==
    IF i > Len(chans) THEN temps
    ELSE IF parse_temperature(chans[i]).none THEN ToolsChannels(chans, i + 1, temps)
    ELSE ToolsChannels(chans, i + 1,
                       Put(temps, ChanName(i), parse_temperature(chans[i]).val))

\* _ecowitt_api_request lines 45-61 returns None for every failure of the request
get_current_temperatures(req, chans) ==
    IF req # "ok" THEN [ran |-> TRUE, ret |-> "dict", temps |-> EmptyTemps]
    ELSE IF \E i \in 1..Len(chans) : ParseRaises(chans[i])
    THEN [ran |-> TRUE, ret |-> "raise", temps |-> EmptyTemps]
    ELSE [ran |-> TRUE, ret |-> "dict", temps |-> ToolsChannels(chans, 1, EmptyTemps)]

InitRd ==
    /\ InitThreads
    /\ InitLocator
    /\ InitListener
    /\ InitEvaluation
    /\ variant = "lan"
    /\ clock = MorningStart
    /\ last_alert_slot = None
    /\ last_poll = 0
    /\ HISTORY = EmptyTemps
    /\ nticks = 0
    /\ evalCount = [o \in (0..MaxDays) \X Slots |-> 0]
    /\ firedBefore = [s \in Slots |-> FALSE]
    /\ seenSince = [s \in Slots |-> {}]
    /\ readFailed = FALSE
    /\ respHost = 0
    /\ deviceAddr = "a1"
    /\ GW1200_IP = "a1"
    /\ InitForecast
    /\ rd_req \in RdRequests
    /\ rd_chans \in SeqsUpTo(RdChannels, RdMaxChans)
    /\ rd_lan = NotRead
    /\ rd_tools = NotRead
    /\ InitTools

\* main lines 320-321: temps = get_ecowitt_temps(ip); update_history(temps)
RunLanRead ==
    /\ ~rd_lan.ran
    /\ rd_lan' = read_livedata(rd_req, rd_chans)
    /\ HISTORY' = update_history(HISTORY, rd_lan'.temps, clock)
    /\ UNCHANGED <<clock, rd_req, rd_chans, rd_tools, RdFrame>>

RunToolsRead ==
    /\ ~rd_tools.ran
    /\ rd_tools' = get_current_temperatures(rd_req, rd_chans)
    /\ UNCHANGED <<clock, HISTORY, rd_req, rd_chans, rd_lan, RdFrame>>

NextRd == RunLanRead \/ RunToolsRead

SpecReader == InitRd /\ [][NextRd]_vars

\* a channel of the payload is not a number
Malformed(chans) == \E i \in 1..Len(chans) : chans[i].form # "number"

\* C18: the sensor reader never raises, and when the read fails (timeout,
\* non-success status, non-zero API code, malformed payload, also one that becomes
\* unparseable after some channels were parsed) it returns the empty map.
C18_EmptyOnFailure ==
    /\ rd_lan.ran =>
          /\ rd_lan.ret = "dict"
          /\ (LanRequestFails(rd_req) \/ Malformed(rd_chans)) => rd_lan.temps = EmptyTemps
    /\ rd_tools.ran =>
          /\ rd_tools.ret = "dict"
          /\ (rd_req # "ok" \/ Malformed(rd_chans)) => rd_tools.temps = EmptyTemps

\* the Fahrenheit value of a channel, whatever unit it is reported in
Fahrenheit(ch) == IF ch.unit = "C" THEN CelsiusToF(ch.val) ELSE ch.val

\* C19: every temperature a reader returns, and every reading recorded in the
\* history store, is the channel's value in Fahrenheit: c * 9/5 + 32 for a channel
\* reported in Celsius, the value itself for one reported in Fahrenheit.
C19_AlwaysFahrenheit ==
    /\ \A res \in {rd_lan, rd_tools} : \A i \in 1..Len(rd_chans) :
          (res.ran /\ ChanName(i) \in DOMAIN res.temps)
             => res.temps[ChanName(i)] = Fahrenheit(rd_chans[i])
    /\ \A i \in 1..Len(rd_chans) : ChanName(i) \in DOMAIN HISTORY =>
          \A k \in 1..Len(HISTORY[ChanName(i)]) :
              HISTORY[ChanName(i)][k][2] = Fahrenheit(rd_chans[i])

C22_FailedSlotHandled ==
    variant = "lan" =>
        /\ \A o \in DOMAIN evalCount : evalCount[o] <= 1
        /\ e_pc["main"] # "dead"
        /\ (e_pc["main"] = "sleep" /\ SlotOf(clock) # None) => last_alert_slot = SlotOf(clock)

\* the forecast fetch of the morning evaluation failed, and the loop is at the end of
\* its next iteration, in the same minute, without having evaluated again
C22_Witness ==
    /\ variant = "lan"
    /\ "forecast" \in e_failed
    /\ nticks >= 2
    /\ e_pc["main"] = "sleep"
    /\ SlotOf(clock) = "morning"
    /\ evalCount[<<0, "morning">>] = 1
    /\ last_alert_slot = "morning"

\* the address the poll of this tick reads: the cached one, or what a sweep finds
Located == find_ecowitt_device(GW1200_IP, deviceAddr)

\* a step of the loop on which the polling interval has elapsed
PollTick == nticks' = nticks + 1 /\ PollDue(TimeTime(clock), last_poll)

RecordedAt(H, at) == \E name \in DOMAIN H : \E k \in 1..Len(H[name]) : H[name][k][1] = at

\* C23: on every tick where the polling interval has elapsed the poll runs, whatever
\* the slot and the latch are, and while the gateway is reachable it records a
\* reading: after the tick the store holds a reading stamped with the tick's time,
\* unless the poll did address the gateway (whose answer can still fail or name no
\* sensor).
C23_PollRecordsWhileReachable ==
    [][(PollTick /\ deviceAddr # None)
          => /\ last_poll' = TimeTime(clock)
             /\ RecordedAt(HISTORY', clock) \/ Located = deviceAddr]_vars

\* an update_history call of thread t returns on this step
UpdateReturns(t) == pc[t] \in InUpdate \cup {"uh_lock"} /\ pc'[t] = "idle"

Holds(readings, reading) == \E k \in 1..Len(readings) : readings[k] = reading

\* C24: when update_history(current_temps) returns, with now its timestamp, every
\* sensor named in current_temps has a history that holds (now, temperature) and no
\* entry stamped at or before now - 24h; while the call is inside its locked block
\* no step changes the history of a sensor it does not name; and no step ever
\* removes a sensor name from the store.
C24_RecordEffect ==
    [][\A t \in Threads :
          /\ UpdateReturns(t) =>
                \A name \in DOMAIN uh_temps[t] :
                    /\ name \in DOMAIN HISTORY'
                    /\ Holds(HISTORY'[name], <<uh_now[t], uh_temps[t][name]>>)
                    /\ \A k \in 1..Len(HISTORY'[name]) :
                          HISTORY'[name][k][1] > uh_now[t] - Hours24
          /\ pc[t] \in InUpdate =>
                \A name \in DOMAIN HISTORY \ DOMAIN uh_temps[t] :
                    HISTORY'[name] = HISTORY[name]
          /\ DOMAIN HISTORY \subseteq DOMAIN HISTORY']_vars

\* two calls have returned, the second a window after the first and naming one
\* sensor only: that sensor's old reading is pruned and its new one kept, the other
\* sensor's history is as the first call left it
C24_Witness ==
    /\ \A t \in Threads : pc[t] = "idle"
    /\ DOMAIN HISTORY = Sensors
    /\ \E name \in Sensors, other \in Sensors :
        /\ name # other
        /\ Len(recorded[name]) = 2
        /\ HISTORY[name] = <<recorded[name][2]>>
        /\ recorded[name][2][1] >= recorded[name][1][1] + Hours24
        /\ HISTORY[other] = <<<<recorded[name][1][1], recorded[name][1][2]>>>>

\* ---------------------------------------------------------------------------
\* The agent's tools and API server. Each works on a store of its own
\* (agent_preferences.json, api.py's sessions, the memory store's file); the
\* daemon's state is at rest.
\* ---------------------------------------------------------------------------
ToolFrame == <<last_poll, last_alert_slot, GW1200_IP, HISTORY, deviceAddr, nticks,
               evalCount, firedBefore, seenSince, readFailed, histVars, discVars,
               trigVars, fcVars, evVars, rdVars>>

InitToolBase ==
    /\ InitThreads
    /\ InitLocator
    /\ InitListener
    /\ InitEvaluation
    /\ InitReader
    /\ InitForecast
    /\ variant = "lan"
    /\ clock = 0
    /\ last_alert_slot = None
    /\ last_poll = 0
    /\ HISTORY = EmptyTemps
    /\ nticks = 0
    /\ evalCount = [o \in (0..MaxDays) \X Slots |-> 0]
    /\ firedBefore = [s \in Slots |-> FALSE]
    /\ seenSince = [s \in Slots |-> {}]
    /\ readFailed = FALSE
    /\ respHost = 0
    /\ deviceAddr = None
    /\ GW1200_IP = None

(* set_alert_threshold (tools/alerts.py lines 108-176) on the stored thresholds *)

MaxAlertCalls == 2

\* alerts.py lines 54-58: the friendly names of config["sensors"]
ConfiguredSensors == {"Basement", "Attic"}

SensorArgs == ConfiguredSensors \cup {"NonExistentRoom"}

THRESHOLD_MIN == -50
THRESHOLD_MAX == 150

ThresholdArgs == {THRESHOLD_MIN - 1, THRESHOLD_MIN, 55, THRESHOLD_MAX, THRESHOLD_MAX + 1}

\* low_threshold and high_threshold, each a number or not given (None)
GivenArgs ==
    {[has_low |-> hl, low |-> IF hl THEN l ELSE 0,
      has_high |-> hh, high |-> IF hh THEN h ELSE 0] :
        hl \in BOOLEAN, hh \in BOOLEAN, l \in ThresholdArgs, h \in ThresholdArgs}

\* lines 135 and 142
OutOfRange_Never(v) == FALSE

OutOfRange(v) == v < THRESHOLD_MIN \/ v > THRESHOLD_MAX

\* lines 126-146: the three validations, which return before anything is loaded
Rejected(sensor_name, given) ==
    \/ sensor_name \notin ConfiguredSensors
    \/ given.has_low /\ OutOfRange(given.low)
    \/ given.has_high /\ OutOfRange(given.high)

\* lines 149-159: the sensor's entry with the given thresholds written over it
Merged(thresholds, sensor_name, given) ==
    LET old == IF sensor_name \in DOMAIN thresholds THEN thresholds[sensor_name]
               ELSE NoThresholds
    IN  [has_low |-> old.has_low \/ given.has_low,
         low |-> IF given.has_low THEN given.low ELSE old.low,
         has_high |-> old.has_high \/ given.has_high,
         high |-> IF given.has_high THEN given.high ELSE old.high]

\* save_preference (lines 40-51): the file is written, or open() fails and the file
\* is as it was, or the write is cut short and the file no longer parses, which
\* load_preferences reads as {} (lines 35-37)
SaveOutcomes == {"saved", "open_failed", "write_failed"}

AfterSave(thresholds, sensor_name, given, outcome) ==
    IF outcome = "saved"
    THEN [n \in DOMAIN thresholds \cup {sensor_name} |->
             IF n = sensor_name THEN Merged(thresholds, sensor_name, given)
             ELSE thresholds[n]]
    ELSE IF outcome = "open_failed" THEN thresholds
    ELSE EmptyTemps

set_alert_threshold(sensor_name, given, outcome) ==
    /\ a_call' = [done |-> TRUE, sensor |-> sensor_name, given |-> given,
                  success |-> ~Rejected(sensor_name, given) /\ outcome = "saved"]
    /\ prefs' = IF Rejected(sensor_name, given) THEN prefs
                ELSE AfterSave(prefs, sensor_name, given, outcome)

A_SetThreshold ==
    /\ nticks < MaxAlertCalls
    /\ nticks' = nticks + 1
    /\ \E sensor_name \in SensorArgs, given \in GivenArgs, outcome \in SaveOutcomes :
          set_alert_threshold(sensor_name, given, outcome)
    /\ UNCHANGED <<clock, last_poll, last_alert_slot, GW1200_IP, HISTORY, deviceAddr,
                   evalCount, firedBefore, seenSince, readFailed, histVars, discVars,
                   trigVars, fcVars, evVars, rdVars, sessions, s_next, s_out, s_call,
                   items, m_call>>

InitAlerts ==
    /\ InitToolBase
    /\ InitSessions
    /\ InitStore
    /\ prefs = EmptyTemps
    /\ a_call = NoAlertCall

SpecAlerts == InitAlerts /\ [][A_SetThreshold]_vars

\* the arguments the claim says must be refused: a sensor that is not a configured
\* friendly name, or a given threshold below -50 or above 150
MustRefuse(sensor_name, given) ==
    \/ sensor_name \notin ConfiguredSensors
    \/ given.has_low /\ (given.low < -50 \/ given.low > 150)
    \/ given.has_high /\ (given.high < -50 \/ given.high > 150)

\* the call of this step was given arguments that need not be refused
ValidCall == a_call'.done /\ ~MustRefuse(a_call'.sensor, a_call'.given)

\* the thresholds of the call's sensor are exactly the given ones (one not given is
\* as it was), and every other sensor's are as they were
StoredExactly ==
    /\ a_call'.sensor \in DOMAIN prefs'
    /\ prefs'[a_call'.sensor] = Merged(prefs, a_call'.sensor, a_call'.given)
    /\ a_call'.given.has_low => prefs'[a_call'.sensor].low = a_call'.given.low
    /\ a_call'.given.has_high => prefs'[a_call'.sensor].high = a_call'.given.high
    /\ \A n \in DOMAIN prefs \ {a_call'.sensor} : n \in DOMAIN prefs' /\ prefs'[n] = prefs[n]
    /\ DOMAIN prefs' \subseteq DOMAIN prefs \cup {a_call'.sensor}

\* a call with an unknown sensor or a threshold out of range fails and changes nothing
RejectedUnchanged ==
    (a_call'.done /\ MustRefuse(a_call'.sensor, a_call'.given))
        => (~a_call'.success /\ prefs' = prefs)

MaxSessions == 2
MaxApiOps == 5

\* api.py line 61: SESSION_TIMEOUT = timedelta(hours=24)
SESSION_TIMEOUT == Hours24

TokenArgs == 0..MaxSessions

Expired_Never(now, last_accessed) == FALSE

\* lines 92 and 113: now - session["last_accessed"] > SESSION_TIMEOUT
Expired(now, last_accessed) == now - last_accessed > SESSION_TIMEOUT

Without(table, gone) == [t \in DOMAIN table \ gone |-> table[t]]

\* lines 108-118
cleanup_expired_sessions(table, now) ==
    Without(table, {t \in DOMAIN table : Expired(now, table[t])})

\* lines 80-98: status 200 stands for the session returned, 401 for the exception
get_session(table, session_token, now, sweep) ==
    LET swept == IF sweep /\ DOMAIN table # {} THEN cleanup_expired_sessions(table, now)
                 ELSE table
    IN  IF session_token \notin DOMAIN swept THEN [status |-> 401, table |-> swept]
        ELSE IF Expired(now, swept[session_token])
        THEN [status |-> 401, table |-> Without(swept, {session_token})]
        ELSE [status |-> 200, table |-> [swept EXCEPT ![session_token] = now]]

ApiFrame == <<last_poll, last_alert_slot, GW1200_IP, HISTORY, deviceAddr, evalCount,
              firedBefore, seenSince, readFailed, histVars, discVars, trigVars, fcVars,
              evVars, rdVars, prefs, a_call, items, m_call>>

ApiStep(op, token, status) ==
    /\ nticks < MaxApiOps
    /\ nticks' = nticks + 1
    /\ s_call' = [op |-> op, token |-> token, status |-> status]

\* POST /auth/login (lines 224-251): the password is verified, then create_session
S_Login ==
    /\ \E password_ok \in BOOLEAN :
          IF password_ok /\ s_next <= MaxSessions
          THEN /\ sessions' = [t \in DOMAIN sessions \cup {s_next} |->
                                 IF t = s_next THEN clock ELSE sessions[t]]
               /\ s_next' = s_next + 1
               /\ ApiStep("login", s_next, 200)
          ELSE /\ ApiStep("login", 0, 401)
               /\ UNCHANGED <<sessions, s_next>>
    /\ UNCHANGED <<clock, s_out, ApiFrame>>

\* a request to an endpoint that depends on verify_auth (lines 158-177)
S_Request ==
    /\ \E token \in TokenArgs, sweep \in BOOLEAN :
          LET r == get_session(sessions, token, clock, sweep)
          IN  /\ sessions' = r.table
              /\ ApiStep("request", token, r.status)
    /\ UNCHANGED <<clock, s_next, s_out, ApiFrame>>

\* POST /auth/logout (lines 339-346), after verify_auth
S_Logout ==
    /\ \E token \in TokenArgs, sweep \in BOOLEAN :
          LET r == get_session(sessions, token, clock, sweep)
          IN  /\ ApiStep("logout", token, r.status)
              /\ sessions' = IF r.status = 200 THEN Without(r.table, {token}) ELSE r.table
              /\ s_out' = IF r.status = 200 THEN s_out \cup {token} ELSE s_out
    /\ UNCHANGED <<clock, s_next, ApiFrame>>

S_Cleanup ==
    /\ sessions' = cleanup_expired_sessions(sessions, clock)
    /\ ApiStep("cleanup", 0, 0)
    /\ UNCHANGED <<clock, s_next, s_out, ApiFrame>>

\* time passes: a moment, or exactly the timeout
S_Wait ==
    /\ \E d \in {1, SESSION_TIMEOUT} : clock' = clock + d
    /\ ApiStep("wait", 0, 0)
    /\ UNCHANGED <<sessions, s_next, s_out, ApiFrame>>

InitApi ==
    /\ InitToolBase
    /\ InitPrefs
    /\ InitStore
    /\ InitSessions

NextApi == S_Login \/ S_Request \/ S_Logout \/ S_Cleanup \/ S_Wait

SpecSessions == InitApi /\ [][NextApi]_vars

\* the token is one login issued, it was not logged out, and its session's last
\* access is at most 24h old
GoodToken(token) ==
    /\ token \in 1..(s_next - 1)
    /\ token \notin s_out
    /\ token \in DOMAIN sessions
    /\ clock - sessions[token] <= 24 * 3600

\* C26: whatever logins, requests, logouts and cleanups came before, a request (or
\* a logout) is accepted only with a token that login issued, that was not logged
\* out and whose last access is at most 24h old, and is accepted with such a token;
\* any other token gets 401; an expired session is deleted when a request shows it;
\* and a session leaves the table only expired or by its own logout.
C26_SessionsGuardRequests ==
    /\ [](DOMAIN sessions \subseteq (1..(s_next - 1)) \ s_out)
    /\ [][/\ s_call'.op \in {"request", "logout"} =>
               /\ s_call'.status = 200 <=> GoodToken(s_call'.token)
               /\ s_call'.status \in {200, 401}
               /\ s_call'.status = 401 => s_call'.token \notin DOMAIN sessions'
          /\ \A t \in DOMAIN sessions \ DOMAIN sessions' :
               \/ clock - sessions[t] > 24 * 3600
               \/ s_call' = [op |-> "logout", token |-> t, status |-> 200]]_vars

\* a request is accepted exactly 24h after the token's login, after the other
\* session was logged out
C26_Witness ==
    /\ s_call.op = "request" /\ s_call.status = 200
    /\ s_out # {}
    /\ clock = SESSION_TIMEOUT
    /\ s_call.token \in DOMAIN sessions /\ sessions[s_call.token] = clock

\* C27: a manually triggered evaluation never changes the scheduler's
\* last_alert_slot, and does not suppress the scheduled evaluation: as long as the
\* slot occurrence of the current minute has had no scheduled evaluation, the latch
\* is not that slot, whatever manual evaluations ran.
C27_ManualLeavesLatch ==
    /\ [][e_pc'["manual"] # e_pc["manual"] => last_alert_slot' = last_alert_slot]_vars
    /\ []((variant = "lan" /\ SlotOf(clock) # None
              /\ evalCount[<<DayOf(clock), SlotOf(clock)>>] = 0)
             => last_alert_slot # SlotOf(clock))

\* a manual evaluation ran to its end inside the morning window, and the scheduled
\* evaluation of that window is starting after it
C27_Witness ==
    /\ variant = "lan"
    /\ SlotOf(clock) = "morning"
    /\ e_nevals = 1 /\ e_pc["manual"] = "idle"
    /\ e_pc["main"] = "find"
    /\ evalCount[<<0, "morning">>] = 1
    /\ last_alert_slot = None

(* The two store calls of a LAN evaluation (check_weather_and_alert lines 172-176:
   current_temps = get_ecowitt_temps(ip); update_history(current_temps);
   lows, highs = get_24h_stats()) run by both threads next to other record calls.
   e_pc is where a thread's evaluation is: idle, recording, snapshot.
   An evaluation takes moments: the clock moves by a whole window only while no
   evaluation is between its read and its snapshot. *)

EhFrame == <<last_poll, last_alert_slot, GW1200_IP, deviceAddr, nticks, evalCount,
             firedBefore, seenSince, readFailed, discVars, trigVars, fcVars, rdVars,
             toolVars, e_ip, e_fc, e_attempts, e_sent, e_wait, e_failed, e_nevals,
             e_alive>>

\* lines 172-175: the evaluation reads current_temps and enters
\* update_history(current_temps) (lines 143-144)
V_Record(t) ==
    /\ e_pc[t] = "idle" /\ pc[t] = "idle"
    /\ ncalls < MaxCalls
    /\ \E temps \in Payloads :
          /\ e_temps' = [e_temps EXCEPT ![t] = temps]
          /\ uh_temps' = [uh_temps EXCEPT ![t] = temps]
          /\ uh_todo' = [uh_todo EXCEPT ![t] = NameOrder(temps)]
    /\ uh_now' = [uh_now EXCEPT ![t] = clock]
    /\ ncalls' = ncalls + 1
    /\ pc' = [pc EXCEPT ![t] = "uh_lock"]
    /\ e_pc' = [e_pc EXCEPT ![t] = "recording"]
    /\ UNCHANGED <<clock, HISTORY, HISTORY_LOCK, uh_list, histAtomic, recorded, nadv,
                   EhFrame>>

\* line 176: get_24h_stats() is entered and takes the lock (line 157)
V_Snapshot(t) ==
    /\ e_pc[t] = "recording" /\ pc[t] = "idle"
    /\ CanAcquire(t)
    /\ HISTORY_LOCK' = t
    /\ pc' = [pc EXCEPT ![t] = "gs_compute"]
    /\ e_pc' = [e_pc EXCEPT ![t] = "snapshot"]
    /\ UNCHANGED <<clock, HISTORY, uh_now, uh_temps, uh_todo, uh_list, histAtomic,
                   recorded, ncalls, nadv, e_temps, EhFrame>>

\* the evaluation goes on with lows and highs and ends
V_End(t) ==
    /\ e_pc[t] = "snapshot" /\ pc[t] = "idle"
    /\ e_pc' = [e_pc EXCEPT ![t] = "idle"]
    /\ e_temps' = [e_temps EXCEPT ![t] = EmptyTemps]
    /\ UNCHANGED <<clock, HISTORY, histVars, EhFrame>>

\* a record call outside an evaluation: the loop's poll (main lines 320-321)
V_Poll == e_pc["main"] = "idle" /\ UH_Begin("main")

\* time passes: a moment at any point, a whole window between evaluations
V_Clock ==
    /\ nadv < MaxAdvances
    /\ \E d \in {1, Hours24} :
          /\ d = Hours24 => \A t \in Threads : e_pc[t] = "idle"
          /\ clock' = clock + d
    /\ nadv' = nadv + 1
    /\ UNCHANGED <<HISTORY, pc, HISTORY_LOCK, uh_now, uh_temps, uh_todo, uh_list,
                   histAtomic, recorded, ncalls, HistFrame>>

NextEh ==
    \/ \E t \in Threads : V_Record(t)
    \/ \E t \in Threads : V_Snapshot(t)
    \/ \E t \in Threads : V_End(t)
    \/ V_Poll
    \/ \E t \in Threads : UH_Acquire(t)
    \/ \E t \in Threads : UH_Append(t)
    \/ \E t \in Threads : UH_Filter(t)
    \/ \E t \in Threads : UH_Store(t)
    \/ \E t \in Threads : GS_Compute(t)
    \/ V_Clock

SpecEvalHist == InitHist /\ [][NextEh]_vars

\* C28: when a LAN evaluation takes its snapshot, every sensor of its current
\* readings has an entry in it with low <= current reading <= high, whatever other
\* record calls ran before, between and around its own record call.
C28_SnapshotCoversCurrent ==
    \A t \in Threads :
        (pc[t] = "gs_compute" /\ e_pc[t] = "snapshot") =>
            LET r == get_24h_stats(HISTORY)
            IN  \A name \in DOMAIN e_temps[t] :
                    /\ name \in DOMAIN r.lows /\ name \in DOMAIN r.highs
                    /\ r.lows[name][2] <= e_temps[t][name]
                    /\ e_temps[t][name] <= r.highs[name][2]

\* an evaluation is taking its snapshot after another call recorded a different
\* temperature for one of its sensors, later than its own reading
C28_Witness ==
    \E t \in Threads, name \in Sensors :
        /\ pc[t] = "gs_compute" /\ e_pc[t] = "snapshot"
        /\ name \in DOMAIN e_temps[t] /\ name \in DOMAIN HISTORY
        /\ Len(HISTORY[name]) = 2
        /\ HISTORY[name][1][2] = e_temps[t][name]
        /\ HISTORY[name][2][2] # e_temps[t][name]

\* C29: in an evaluation whose 24h forecast minimum is below the freeze threshold
\* and whose 24h forecast maximum is above the heat threshold, the alert chosen and
\* sent is the Freeze Warning, and no second alert (no Heat Warning) is sent: the
\* evaluation makes at most one send.
C29_FreezeBeforeHeat ==
    \A r \in Threads :
        (/\ e_fc[r].ran /\ e_fc[r].ret = "ok"
         /\ e_fc[r].low < FREEZE_THRESHOLD_F
         /\ e_fc[r].high > HEAT_THRESHOLD_F) =>
            /\ e_fc[r].alert = "Freeze Warning"
            /\ e_attempts[r] <= 1
            /\ (e_pc[r] = "done" => e_attempts[r] = 1)

\* an evaluation whose forecast crosses both thresholds sent its alert, a Freeze
\* Warning, and is over
C29_Witness ==
    \E r \in Threads :
        /\ e_pc[r] = "done"
        /\ e_sent[r] = "ok"
        /\ e_attempts[r] = 1
        /\ e_fc[r].ran /\ e_fc[r].ret = "ok"
        /\ e_fc[r].low < FREEZE_THRESHOLD_F
        /\ e_fc[r].high > HEAT_THRESHOLD_F
        /\ e_fc[r].alert = "Freeze Warning"

(* SimpleMemoryStore (tools/memory.py lines 25-83): items is the list in the
   storage file, m_call the last call with its arguments and, for get, its result
   (found is FALSE for None). *)

MaxStoreOps == 3
Namespaces == {"facts", "notes"}
Keys == {"k1", "k2"}
StoreValues == {1, 2}
LoadOutcomes == {"ok", "unreadable"}

\* lines 46-52: the list in the file, [] when it cannot be read or parsed
_load(file, outcome) == IF outcome = "ok" THEN file ELSE <<>>

\* line 66: items = [i for i in items if i.get("key") != key]
RECURSIVE WithoutKey(_, _)
WithoutKey(list, key) ==
    IF list = <<>> THEN <<>>
    ELSE IF Head(list).key # key
         THEN <<Head(list)>> \o WithoutKey(Tail(list), key)
         ELSE WithoutKey(Tail(list), key)

\* lines 61-75: the list put saves
put(file, outcome, namespace, key, value) ==
    Append(WithoutKey(_load(file, outcome), key),
           [namespace |-> namespace, key |-> key, value |-> value])

\* lines 80-83: the first item of that namespace and key, or None
RECURSIVE FirstMatch(_, _, _)
FirstMatch(list, namespace, key) ==
    IF list = <<>> THEN [found |-> FALSE, value |-> 0]
    ELSE IF Head(list).namespace = namespace /\ Head(list).key = key
         THEN [found |-> TRUE, value |-> Head(list).value]
         ELSE FirstMatch(Tail(list), namespace, key)

\* lines 77-83
get(file, outcome, namespace, key) == FirstMatch(_load(file, outcome), namespace, key)

M_Put ==
    /\ nticks < MaxStoreOps
    /\ \E namespace \in Namespaces, key \in Keys, value \in StoreValues,
          outcome \in LoadOutcomes :
          /\ items' = put(items, outcome, namespace, key, value)
          /\ m_call' = [op |-> "put", namespace |-> namespace, key |-> key,
                        value |-> value, found |-> FALSE, load |-> outcome]
    /\ nticks' = nticks + 1
    /\ UNCHANGED <<clock, last_poll, last_alert_slot, GW1200_IP, HISTORY, deviceAddr,
                   evalCount, firedBefore, seenSince, readFailed, histVars, discVars,
                   trigVars, fcVars, evVars, rdVars, prefs, a_call, sessions, s_next,
                   s_out, s_call>>

M_Get ==
    /\ nticks < MaxStoreOps
    /\ \E namespace \in Namespaces, key \in Keys, outcome \in LoadOutcomes :
          LET r == get(items, outcome, namespace, key)
          IN  m_call' = [op |-> "get", namespace |-> namespace, key |-> key,
                         value |-> r.value, found |-> r.found, load |-> outcome]
    /\ nticks' = nticks + 1
    /\ UNCHANGED <<clock, last_poll, last_alert_slot, GW1200_IP, HISTORY, deviceAddr,
                   evalCount, firedBefore, seenSince, readFailed, histVars, discVars,
                   trigVars, fcVars, evVars, rdVars, prefs, a_call, sessions, s_next,
                   s_out, s_call, items>>

InitMemory == InitToolBase /\ InitTools

NextMemory == M_Put \/ M_Get

SpecMemory == InitMemory /\ [][NextMemory]_vars

====
